---- MODULE Spec2Model ----
(***************************************************************************)
(* A model of the py-trello client library (src/trello/__init__.py).       *)
(*                                                                         *)
(* The library is a synchronous call-and-map layer: every public operation *)
(* issues HTTP requests through TrelloClient.fetch_json and then updates   *)
(* the fields of an in-memory entity object.  One action of the model is   *)
(* one call of a public operation, run to its return or to the exception   *)
(* it raises.  The remote service is the environment: the status of every  *)
(* response is a nondeterministic input, and the service applies a write   *)
(* exactly when it answers 200.                                            *)
(***************************************************************************)
EXTENDS Integers, Sequences, FiniteSets, TLC

VARIABLES
    client,     \* the TrelloClient object
    server,     \* the state of the remote service
    card,       \* the Card objects, by handle
    board,      \* a Board object
    trello_list,\* a List object
    checklist,  \* a Checklist object, None until add_checklist returns one
    member,     \* a Member object
    webhook,    \* a WebHook object, None until create_hook returns one
    lastOp,     \* the operation called last, with its arguments
    outcome,    \* how that call ended: the exception raised, or "none"
    returned,   \* the value that call returned, None when it raised
    log,        \* the HTTP exchanges of that call, in order: request and status
    written,    \* per mirrored field, the value of the last write that succeeded
    repeated,   \* whether that call repeats the call before it, both having returned
    calls       \* the number of calls made, where a specification bounds it

vars == <<client, server, card, board, trello_list, checklist, member, webhook, lastOp,
          outcome, returned, log, written, repeated, calls>>

(***************************************************************************)
(* Python values.  Every field holds values of one shape, so that any two  *)
(* of its values can be compared.                                          *)
(***************************************************************************)

\* None, for arguments and attributes that hold strings.
None == "<None>"

\* An attribute or argument that may be missing, None, or present.
Absent == [tag |-> "absent"]

PyNone == [tag |-> "none"]

Val(v) == [tag |-> "val", v |-> v]

IsVal(o) == o.tag = "val"

\* A local variable: Then applied to the value of e, which is computed once.
Bind(e, Then(_)) == CHOOSE y \in { Then(x) : x \in {e} } : TRUE

\* A text: a unicode string (what JSON parsing and callers give) or the byte
\* string that str.encode('utf-8') makes of it.
U(s) == [enc |-> "unicode", text |-> s]

Encode(t) == [enc |-> "utf-8", text |-> t.text]

(***************************************************************************)
(* Transport: TrelloClient.fetch_json.                                     *)
(***************************************************************************)

\* The statuses the remote service may answer with: all of them when
\* fetch_json is called directly; in the calls of the entities success, a
\* missing authorization and a failure of the service, which applies a write
\* only when it answers 200.
HttpStatuses == {200, 201, 204, 301, 400, 401, 403, 404, 500}

Statuses == {200, 401, 500}

\* uri_path without its leading "/", when it has one.
StripSlash(uri_path) ==
    IF SubSeq(uri_path, 1, 1) = "/" THEN SubSeq(uri_path, 2, Len(uri_path)) ELSE uri_path

Origin == "https://api.trello.com/1/"

\* The url requested: the fixed API origin, then the path without its leading "/".
UrlOf(uri_path) == Origin \o StripSlash(uri_path)

\* The request fetch_json builds.  files is PyNone or Val(payload);
\* post_args is a record (the empty record when the caller passed None).
BuildRequest(cl, uri_path, http_method, query_params, post_args, files) ==
    [ method  |-> http_method,
      url     |-> UrlOf(uri_path),
      params  |-> query_params,
      data    |-> IF files = PyNone THEN Val(post_args) ELSE PyNone,
      ctype   |-> IF http_method \in {"POST", "PUT", "DELETE"} /\ ~IsVal(files)
                  THEN "application/json; charset=utf-8" ELSE None,
      accept  |-> "application/json",
      auth    |-> cl.oauth,
      files   |-> files ]

\* The exception a response raises, "none" for a response that is returned.
RaisedAny2xx(status) ==
    IF status = 401 THEN "Unauthorized"
    ELSE IF status < 200 \/ status >= 300 THEN "ResourceUnavailable"
    ELSE "none"

Raised(status) ==
    IF status = 401 THEN "Unauthorized"
    ELSE IF status # 200 THEN "ResourceUnavailable"
    ELSE "none"

\* Unauthorized is a subclass of ResourceUnavailable.
IsResourceUnavailable(exc) == exc \in {"ResourceUnavailable", "Unauthorized"}

\* ResourceUnavailable.__init__: the status the exception carries.
CarriedStatus(http_response) == http_response.status

\* A request and the status it was answered with.
Exchange(request, status) == [sent |-> request, answered |-> status]

\* One call of fetch_json against a service that answers response: the one
\* request issued, the exception raised ("none" when it returns) with the
\* status it carries, and the value returned (response.json(), read only when
\* nothing is raised).
FetchJson(cl, uri_path, http_method, query_params, post_args, files, response) ==
    Bind(Raised(response.status), LAMBDA exc :
        [ request |-> Exchange(BuildRequest(cl, uri_path, http_method, query_params,
                                            post_args, files), response.status),
          exc     |-> exc,
          status  |-> IF exc = "none" THEN 0 ELSE CarriedStatus(response),
          value   |-> response.body ])

(***************************************************************************)
(* The remote service.  It holds the card CardId on the list ListId of the *)
(* board BoardId, with its comments, attachments and checklists, the cards *)
(* add_card makes, the boards add_board makes, and the webhooks of the     *)
(* token.  Other lists, boards and members exist only as ids a card may    *)
(* point to.                                                               *)
(***************************************************************************)

CardId == "c1"

ListId == "L1"

BoardId == "B1"

ListIds == {"L1", "L2"}

BoardIds == {"B1", "B2"}

MemberIds == {"m1"}

\* Bounds on what the remote service holds.
MaxComments == 2

MaxAttachments == 1

MaxChecklists == 1

MaxItems == 2

MaxHooks == 2

MaxBoards == 1

MaxCards == 1

\* The time of day the service gives a due date written as a bare date.
Midnight == "T00:00:00.000Z"

InitServerCard ==
    [ id |-> CardId, name |-> "n1", desc |-> "d1", closed |-> FALSE, due |-> PyNone,
      idList |-> ListId, idBoard |-> BoardId, idMembers |-> <<>>,
      comments |-> <<>>, attachments |-> 0, checklists |-> <<>> ]

InitServer ==
    [ card  |-> InitServerCard,
      board |-> [name |-> "b1", desc |-> "bd", closed |-> FALSE],
      list  |-> [name |-> "l1", closed |-> FALSE],
      hooks |-> <<>>,
      added |-> <<>>,
      made  |-> <<>>,
      gone  |-> {} ]

\* The checkItemStates of the card: one entry per checked item.
RECURSIVE ItemStates(_)
ItemStates(items) ==
    IF items = <<>> THEN <<>>
    ELSE (IF Head(items).state = "complete"
          THEN <<[idCheckItem |-> Head(items).id, state |-> "complete"]>>
          ELSE <<>>) \o ItemStates(Tail(items))

RECURSIVE CheckItemStates(_)
CheckItemStates(cls) ==
    IF cls = <<>> THEN <<>>
    ELSE ItemStates(Head(cls).checkItems) \o CheckItemStates(Tail(cls))

\* What the service still has of a list of objects: those not deleted.
Live(srv, objs) == SelectSeq(objs, LAMBDA o : o.id \notin srv.gone)

\* The JSON the service returns for the card.
CardJson(srv) ==
    [ id |-> srv.card.id, name |-> U(srv.card.name), desc |-> U(srv.card.desc),
      closed |-> srv.card.closed, url |-> "https://trello.com/c/" \o srv.card.id,
      idMembers |-> srv.card.idMembers, idShort |-> 1,
      idList |-> srv.card.idList, idBoard |-> srv.card.idBoard,
      idLabels |-> <<>>, labels |-> <<>>,
      badges |-> [comments |-> Len(srv.card.comments),
                  attachments |-> srv.card.attachments],
      due |-> srv.card.due,
      checkItemStates |-> CheckItemStates(Live(srv, srv.card.checklists)),
      dateLastActivity |-> "2014-05-01T10:00:00.000Z" ]

BoardJson(srv, id) ==
    [ id |-> id, name |-> U(srv.board.name), desc |-> U(srv.board.desc),
      closed |-> srv.board.closed, url |-> "https://trello.com/b/" \o id ]

\* The JSON of the i-th board made by add_board.
AddedBoardJson(srv, i) ==
    [ id |-> "B-new" \o ToString(i), name |-> U(srv.added[i]), desc |-> U(""),
      closed |-> FALSE, url |-> "https://trello.com/b/B-new" \o ToString(i) ]

\* The JSON the service returns for the boards of the user.
BoardsJson(srv) ==
    <<BoardJson(srv, BoardId)>> \o [i \in 1..Len(srv.added) |-> AddedBoardJson(srv, i)]

OrganizationIds == {"o1"}

\* The JSON the service returns for an organization.
OrganizationJson(id) ==
    [ id |-> id, name |-> U("org"), desc |-> U("od"),
      url |-> "https://trello.com/" \o id ]

ListJson(srv, id) ==
    [ id |-> id, name |-> U(srv.list.name), closed |-> srv.list.closed ]

\* The JSON the service returns for a member.
MemberJson(id) ==
    [ status |-> "connected", id |-> id, bio |-> U("bio"),
      url |-> "https://trello.com/" \o id, username |-> "user-" \o id,
      fullName |-> U("Full Name"), initials |-> "FN", commentCard |-> "members" ]

SetAdd(seq, x) == IF \E i \in 1..Len(seq) : seq[i] = x THEN seq ELSE Append(seq, x)

CardUrl(rest) == Origin \o "cards/" \o CardId \o rest

\* The urls of the card the service has in hand.
CardUrlAt(srv, rest) == Origin \o "cards/" \o srv.card.id \o rest

\* Index of the checklist with this id, 0 when there is none.
ChecklistIndex(cls, id) ==
    IF \E i \in 1..Len(cls) : cls[i].id = id
    THEN CHOOSE i \in 1..Len(cls) : cls[i].id = id ELSE 0

ItemIndex(items, id) ==
    IF \E i \in 1..Len(items) : items[i].id = id
    THEN CHOOSE i \in 1..Len(items) : items[i].id = id ELSE 0
\* The tokens a caller may hold.
TokenValues == {"tok", "tok2"}

\* The url create_hook posts to.
HooksUrl(token) == "https://trello.com/1/tokens/" \o token \o "/webhooks/"

\* The JSON of a new webhook.
NewHook(srv, data) ==
    [ id |-> "h" \o ToString(Len(srv.hooks) + 1), description |-> data.description,
      idModel |-> data.idModel, callbackURL |-> data.callbackURL, active |-> TRUE ]

\* The JSON of a new checklist, and of a new item of checklist cl.
NewChecklist(srv, name) ==
    [ id |-> srv.card.id \o "-cl" \o ToString(Len(srv.card.checklists) + 1),
      name |-> name,
      checkItems |-> <<>> ]

NewItem(cl, name, checked) ==
    [ id |-> cl.id \o "-i" \o ToString(Len(cl.checkItems) + 1), name |-> name,
      state |-> IF checked THEN "complete" ELSE "incomplete" ]

\* A write of one field of the card: PUT cards/<id>/<attribute>.
PutCardField(srv, attribute, value) ==
    CASE attribute = "name"    -> [srv EXCEPT !.card.name = value.text]
      [] attribute = "desc"    -> [srv EXCEPT !.card.desc = value.text]
      [] attribute = "closed"  -> [srv EXCEPT !.card.closed = value]
      [] attribute = "due"     -> [srv EXCEPT !.card.due = Val(value \o Midnight)]
      [] attribute = "idList"  -> [srv EXCEPT !.card.idList = value]
      [] attribute = "idBoard" -> [srv EXCEPT !.card.idBoard = value]

CardFields == {"name", "desc", "closed", "due", "idList", "idBoard"}

\* What a request about the card in hand, or about a board, a list, a member
\* or a webhook, does to the service, and the JSON body of the answer.
Serve(srv, req) ==
    LET args == req.data.v
        cls  == srv.card.checklists
        same == [srv |-> srv, body |-> <<>>]
    IN
    IF req.method = "GET" THEN
        IF req.url = CardUrlAt(srv, "") THEN [srv |-> srv, body |-> CardJson(srv)]
        ELSE IF req.url = CardUrlAt(srv, "/checklists") THEN [srv |-> srv, body |-> Live(srv, cls)]
        ELSE IF req.url = CardUrlAt(srv, "/actions") THEN [srv |-> srv, body |-> srv.card.comments]
        ELSE IF \E b \in BoardIds : req.url = Origin \o "boards/" \o b
        THEN [srv |-> srv,
              body |-> BoardJson(srv, CHOOSE b \in BoardIds : req.url = Origin \o "boards/" \o b)]
        ELSE IF \E l \in ListIds : req.url = Origin \o "lists/" \o l
        THEN [srv |-> srv,
              body |-> ListJson(srv, CHOOSE l \in ListIds : req.url = Origin \o "lists/" \o l)]
        ELSE IF \E t \in TokenValues : req.url = Origin \o "tokens/" \o t \o "/webhooks"
        THEN [srv |-> srv, body |-> Live(srv, srv.hooks)]
        ELSE IF req.url \in {Origin \o "members/me/boards", Origin \o "members/me/boards/all"}
        THEN [srv |-> srv, body |-> BoardsJson(srv)]
        ELSE IF req.url = Origin \o "members/me/organizations"
        THEN [srv |-> srv, body |-> [i \in 1..1 |-> OrganizationJson("o1")]]
        ELSE IF \E o \in OrganizationIds : req.url = Origin \o "organizations/" \o o
        THEN [srv |-> srv,
              body |-> OrganizationJson(CHOOSE o \in OrganizationIds :
                                            req.url = Origin \o "organizations/" \o o)]
        ELSE IF \E m \in MemberIds : req.url = Origin \o "members/" \o m
        THEN [srv |-> srv,
              body |-> MemberJson(CHOOSE m \in MemberIds : req.url = Origin \o "members/" \o m)]
        ELSE same
    ELSE IF req.method = "PUT" THEN
        IF \E a \in CardFields : req.url = CardUrlAt(srv, "/" \o a)
        THEN LET a   == CHOOSE a \in CardFields : req.url = CardUrlAt(srv, "/" \o a)
                 put == PutCardField(srv, a, args.value)
             IN [srv  |-> IF a = "idBoard" /\ "idList" \in DOMAIN args
                          THEN [put EXCEPT !.card.idList = args.idList] ELSE put,
                 body |-> <<>>]
        ELSE IF req.url = Origin \o "boards/" \o BoardId \o "/closed"
        THEN [srv |-> [srv EXCEPT !.board.closed = (args.value = "true")], body |-> <<>>]
        ELSE IF req.url = Origin \o "lists/" \o ListId \o "/closed"
        THEN [srv |-> [srv EXCEPT !.list.closed = (args.value = "true")], body |-> <<>>]
        ELSE IF \E i \in 1..Len(cls) : \E j \in 1..Len(cls[i].checkItems) :
                req.url = CardUrlAt(srv, "/checklist/" \o cls[i].id \o "/checkItem/"
                                  \o cls[i].checkItems[j].id)
        THEN LET i == CHOOSE i \in 1..Len(cls) : \E j \in 1..Len(cls[i].checkItems) :
                        req.url = CardUrlAt(srv, "/checklist/" \o cls[i].id \o "/checkItem/"
                                          \o cls[i].checkItems[j].id)
                 j == CHOOSE j \in 1..Len(cls[i].checkItems) :
                        req.url = CardUrlAt(srv, "/checklist/" \o cls[i].id \o "/checkItem/"
                                          \o cls[i].checkItems[j].id)
                 old == cls[i].checkItems[j]
                 new == IF "state" \in DOMAIN args
                        THEN [old EXCEPT !.state = args.state]
                        ELSE [old EXCEPT !.name = args.name]
             IN [srv  |-> [srv EXCEPT !.card.checklists[i].checkItems[j] = new],
                 body |-> new]
        ELSE same
    ELSE IF req.method = "POST" THEN
        IF req.url = CardUrlAt(srv, "/members")
        THEN [srv |-> [srv EXCEPT !.card.idMembers = SetAdd(@, args.value)], body |-> <<>>]
        ELSE IF req.url = CardUrlAt(srv, "/actions/comments")
        THEN [srv |-> [srv EXCEPT !.card.comments = Append(@, args.text)], body |-> <<>>]
        ELSE IF req.url = CardUrlAt(srv, "/attachments")
        THEN [srv |-> [srv EXCEPT !.card.attachments = @ + 1], body |-> <<>>]
        ELSE IF req.url = CardUrlAt(srv, "/checklists")
        THEN [srv  |-> [srv EXCEPT !.card.checklists = Append(@, NewChecklist(srv, args.name))],
              body |-> NewChecklist(srv, args.name)]
        ELSE IF \E i \in 1..Len(cls) : req.url = Origin \o "checklists/" \o cls[i].id \o "/checkItems"
        THEN LET i == CHOOSE i \in 1..Len(cls) :
                        req.url = Origin \o "checklists/" \o cls[i].id \o "/checkItems"
                 it == NewItem(cls[i], args.name, args.checked)
             IN [srv  |-> [srv EXCEPT !.card.checklists[i].checkItems = Append(@, it)],
                 body |-> it]
        ELSE IF req.url = Origin \o "boards"
        THEN [srv  |-> [srv EXCEPT !.added = Append(@, args.name)],
              body |-> AddedBoardJson([srv EXCEPT !.added = Append(@, args.name)],
                                      Len(srv.added) + 1)]
        ELSE IF \E t \in TokenValues : req.url = HooksUrl(t)
        THEN [srv  |-> [srv EXCEPT !.hooks = Append(@, NewHook(srv, args))],
              body |-> NewHook(srv, args)]
        ELSE same
    ELSE IF req.method = "DELETE" THEN
        IF req.url = CardUrlAt(srv, "")
        THEN [srv |-> [srv EXCEPT !.gone = @ \cup {srv.card.id}], body |-> <<>>]
        ELSE IF \E i \in 1..Len(cls) : req.url = Origin \o "checklists/" \o cls[i].id
        THEN [srv  |-> [srv EXCEPT !.gone = @ \cup
                           {cls[CHOOSE i \in 1..Len(cls) :
                                   req.url = Origin \o "checklists/" \o cls[i].id].id}],
              body |-> <<>>]
        ELSE IF \E i \in 1..Len(srv.hooks) : req.url = Origin \o "webhooks/" \o srv.hooks[i].id
        THEN [srv  |-> [srv EXCEPT !.gone = @ \cup
                           {srv.hooks[CHOOSE i \in 1..Len(srv.hooks) :
                                   req.url = Origin \o "webhooks/" \o srv.hooks[i].id].id}],
              body |-> <<>>]
        ELSE same
    ELSE same

\* The JSON of the card add_card makes: POST lists/<id>/cards.
NewCard(srv, args) ==
    [ id |-> "c" \o ToString(Len(srv.made) + 2), name |-> args.name.text, desc |-> "",
      closed |-> FALSE, due |-> PyNone, idList |-> args.idList, idBoard |-> BoardId,
      idMembers |-> <<>>, comments |-> <<>>, attachments |-> 0, checklists |-> <<>> ]

\* The service with the i-th card made by add_card in hand.
InHand(srv, i) == [srv EXCEPT !.card = srv.made[i]]

\* The requests about the card in hand: the urls of the card, and of its
\* checklists.
Addresses(srv, url) ==
    \/ Len(url) >= Len(CardUrlAt(srv, ""))
       /\ SubSeq(url, 1, Len(CardUrlAt(srv, ""))) = CardUrlAt(srv, "")
    \/ \E i \in 1..Len(srv.card.checklists) :
          url \in {Origin \o "checklists/" \o srv.card.checklists[i].id \o "/checkItems",
                   Origin \o "checklists/" \o srv.card.checklists[i].id}

\* What a request that the service answers with 200 does to the service, and
\* the JSON body of the answer.
ServerApply(srv, req) ==
    IF req.method = "POST" /\ \E l \in ListIds : req.url = Origin \o "lists/" \o l \o "/cards"
    THEN [srv  |-> [srv EXCEPT !.made = Append(@, NewCard(srv, req.data.v))],
          body |-> CardJson([srv EXCEPT !.card = NewCard(srv, req.data.v)])]
    ELSE IF \E i \in 1..Len(srv.made) : Addresses(InHand(srv, i), req.url)
    THEN Bind(CHOOSE i \in 1..Len(srv.made) : Addresses(InHand(srv, i), req.url),
              LAMBDA i :
         Bind(Serve(InHand(srv, i), req), LAMBDA done :
         [srv  |-> [done.srv EXCEPT !.card = srv.card, !.made[i] = done.srv.card],
          body |-> done.body]))
    ELSE Serve(srv, req)

\* Whether the url names an object the service has deleted: one of its path
\* segments is the id of such an object.
Gone(srv, url) ==
    \E g \in srv.gone : \E k \in 1..Len(url) :
        /\ k + Len(g) <= Len(url)
        /\ SubSeq(url, k, k + Len(g)) = "/" \o g
        /\ (k + Len(g) = Len(url) \/ SubSeq(url, k + Len(g) + 1, k + Len(g) + 1) = "/")

\* Whether what the service holds is within the model's bounds.
Room(srv) ==
    /\ Len(srv.card.comments) <= MaxComments
    /\ srv.card.attachments <= MaxAttachments
    /\ Len(srv.card.checklists) <= MaxChecklists
    /\ \A i \in 1..Len(srv.card.checklists) :
          Len(srv.card.checklists[i].checkItems) <= MaxItems
    /\ Len(srv.added) <= MaxBoards
    /\ Len(srv.made) <= MaxCards

\* One call of fetch_json against the service: the service answers with status;
\* when that is 200 it has carried the request out.
Call(srv, cl, uri_path, http_method, query_params, post_args, files, status) ==
    Bind(IF status = 200
         THEN ServerApply(srv, BuildRequest(cl, uri_path, http_method, query_params,
                                            post_args, files))
         ELSE [srv |-> srv, body |-> <<>>],
         LAMBDA done :
    Bind(FetchJson(cl, uri_path, http_method, query_params, post_args, files,
                   [status |-> status, body |-> done.body]),
         LAMBDA r :
    [ exc |-> r.exc, status |-> r.status, request |-> r.request, value |-> r.value,
      srv |-> done.srv ]))

(***************************************************************************)
(* TrelloClient.                                                           *)
(***************************************************************************)

Truthy(s) == s # None /\ s # ""

\* TrelloClient.__init__
NewClient(api_key, api_secret, token, token_secret) ==
    [ oauth |-> IF Truthy(api_key) \/ Truthy(token)
                THEN Val([client_key |-> api_key, client_secret |-> api_secret,
                          resource_owner_key |-> token,
                          resource_owner_secret |-> token_secret])
                ELSE PyNone,
      public_only |-> token = None,
      api_key |-> api_key,
      api_secret |-> api_secret,
      resource_owner_key |-> token,
      resource_owner_secret |-> token_secret,
      all_info |-> Absent ]

\* The empty dict: no query parameters, no post arguments.
NoParams == <<>>

NoArgs == <<>>

\* How a call of a method ended: the object and the service after it, the
\* exception raised ("none" when it returned) with the status it carries, the
\* requests issued and the value returned.
Result(self, srv, exc, status, requests, ret) ==
    [ self |-> self, srv |-> srv, exc |-> exc, status |-> status, log |-> requests,
      ret |-> ret ]

\* The status of the i-th request of a call whose k-th request is answered
\* with st and whose other requests are answered with 200.
StatusAt(k, st, i) == IF i = k THEN st ELSE 200

\* WebHook.__init__
NewWebHook(token, hook_id, desc, id_model, callback_url, active) ==
    [ id |-> hook_id, desc |-> desc, id_model |-> id_model,
      callback_url |-> callback_url, active |-> active, token |-> token ]

\* token or self.resource_owner_key
TokenOr(token, stored) == IF Truthy(token) THEN token ELSE stored

\* TrelloClient._existing_hook_objs
ExistingHookObjs(hooks, token) ==
    [ i \in 1..Len(hooks) |->
        NewWebHook(token, hooks[i].id, hooks[i].description, hooks[i].idModel,
                   hooks[i].callbackURL, hooks[i].active) ]

\* TrelloClient.info_for_all_boards with public_only never consulted
InfoForAllBoardsAnyMode(cl, srv, actions, st) ==
    Bind(Call(srv, cl, "/members/me/boards/all", "GET", [actions |-> actions], NoArgs,
              PyNone, st),
         LAMBDA r :
    Result(IF r.exc = "none" THEN [cl EXCEPT !.all_info = Val(r.value)] ELSE cl,
           r.srv, r.exc, r.status, <<r.request>>, None))

\* TrelloClient.info_for_all_boards
InfoForAllBoards(cl, srv, actions, st) ==
    IF cl.public_only
    THEN Result(cl, srv, "none", 0, <<>>, None)
    ELSE Bind(Call(srv, cl, "/members/me/boards/all", "GET", [actions |-> actions],
                   NoArgs, PyNone, st),
              LAMBDA r :
         Result(IF r.exc = "none" THEN [cl EXCEPT !.all_info = Val(r.value)] ELSE cl,
                r.srv, r.exc, r.status, <<r.request>>, None))

\* TrelloClient.list_hooks with the token of the client never consulted
ListHooksArgOnly(cl, srv, token, st) ==
    IF token = None
    THEN Result(cl, srv, "TokenError", 0, <<>>, None)
    ELSE Bind(Call(srv, cl, "/tokens/" \o token \o "/webhooks", "GET", NoParams, NoArgs,
                   PyNone, st),
              LAMBDA r :
         Result(cl, r.srv, r.exc, r.status, <<r.request>>,
                IF r.exc = "none" THEN ExistingHookObjs(r.value, token) ELSE <<>>))

\* TrelloClient.list_hooks
ListHooks(cl, srv, token, st) ==
    Bind(TokenOr(token, cl.resource_owner_key), LAMBDA tok :
    IF tok = None
    THEN Result(cl, srv, "TokenError", 0, <<>>, None)
    ELSE Bind(Call(srv, cl, "/tokens/" \o tok \o "/webhooks", "GET", NoParams, NoArgs,
                   PyNone, st),
              LAMBDA r :
         Result(cl, r.srv, r.exc, r.status, <<r.request>>,
                IF r.exc = "none" THEN ExistingHookObjs(r.value, tok) ELSE <<>>)))

\* return False
PyFalse == [tag |-> "False"]

\* The request requests.post makes for create_hook.
HookRequest(cl, tok, callback_url, id_model, desc) ==
    [ method |-> "POST", url |-> HooksUrl(tok), params |-> NoParams,
      data |-> Val([callbackURL |-> callback_url, idModel |-> id_model,
                    description |-> desc]),
      ctype |-> None, accept |-> None, auth |-> cl.oauth, files |-> PyNone ]

\* TrelloClient.create_hook: requests.post, not fetch_json; a status other than
\* 200 returns False.
CreateHook(cl, srv, callback_url, id_model, desc, token, st) ==
    Bind(TokenOr(token, cl.resource_owner_key), LAMBDA tok :
    IF tok = None
    THEN Result(cl, srv, "TokenError", 0, <<>>, None)
    ELSE Bind(HookRequest(cl, tok, callback_url, id_model, desc), LAMBDA req :
         Bind(IF st = 200 THEN ServerApply(srv, req) ELSE [srv |-> srv, body |-> <<>>],
              LAMBDA done :
         Result(cl, done.srv, "none", 0, <<Exchange(req, st)>>,
                IF st = 200
                THEN NewWebHook(tok, done.body.id, desc, id_model, callback_url, TRUE)
                ELSE PyFalse))))

(***************************************************************************)
(* Board and List.                                                         *)
(***************************************************************************)

\* A method that issues one request ending with the exception swallowed
EndedQuiet(self, after, r) ==
    Result(IF r.exc = "none" THEN after ELSE self, r.srv, "none", r.status,
           <<r.request>>, None)

\* How a method that issues one request ends: self becomes after when the
\* request returns, and stays as it is when it raises.
Ended(self, after, r) ==
    Result(IF r.exc = "none" THEN after ELSE self, r.srv, r.exc, r.status,
           <<r.request>>, None)

\* Board.from_json (with a client, no organization)
BoardFromJson(json_obj) ==
    [ id |-> json_obj.id, name |-> Encode(json_obj.name),
      description |-> Encode(json_obj.desc), closed |-> json_obj.closed,
      url |-> json_obj.url ]

\* Board.fetch
BoardFetch(self, srv, cl, st) ==
    Bind(Call(srv, cl, "/boards/" \o self.id, "GET", NoParams, NoArgs, PyNone, st),
         LAMBDA r :
    IF r.exc # "none" THEN Ended(self, self, r)
    ELSE Ended(self, [self EXCEPT !.name = r.value.name, !.description = r.value.desc,
                                  !.closed = r.value.closed, !.url = r.value.url], r))

\* Board.close
BoardClose(self, srv, cl, st) ==
    Bind(Call(srv, cl, "/boards/" \o self.id \o "/closed", "PUT", NoParams,
              [value |-> "true"], PyNone, st),
         LAMBDA r : Ended(self, [self EXCEPT !.closed = TRUE], r))

\* Board.open
BoardOpen(self, srv, cl, st) ==
    Bind(Call(srv, cl, "/boards/" \o self.id \o "/closed", "PUT", NoParams,
              [value |-> "false"], PyNone, st),
         LAMBDA r : Ended(self, [self EXCEPT !.closed = FALSE], r))

\* List.from_json
ListFromJson(json_obj) ==
    [ id |-> json_obj.id, name |-> Encode(json_obj.name), closed |-> json_obj.closed ]

\* List.fetch
ListFetch(self, srv, cl, st) ==
    Bind(Call(srv, cl, "/lists/" \o self.id, "GET", NoParams, NoArgs, PyNone, st),
         LAMBDA r :
    IF r.exc # "none" THEN Ended(self, self, r)
    ELSE Ended(self, [self EXCEPT !.name = r.value.name, !.closed = r.value.closed], r))

\* List.close
ListClose(self, srv, cl, st) ==
    Bind(Call(srv, cl, "/lists/" \o self.id \o "/closed", "PUT", NoParams,
              [value |-> "true"], PyNone, st),
         LAMBDA r : Ended(self, [self EXCEPT !.closed = TRUE], r))

\* List.open
ListOpen(self, srv, cl, st) ==
    Bind(Call(srv, cl, "/lists/" \o self.id \o "/closed", "PUT", NoParams,
              [value |-> "false"], PyNone, st),
         LAMBDA r : Ended(self, [self EXCEPT !.closed = FALSE], r))

(***************************************************************************)
(* Member.                                                                 *)
(***************************************************************************)

\* Member.__init__: the attributes it sets; the others are missing.
NewMember(member_id, full_name) ==
    [ id |-> member_id, full_name |-> Val(full_name), status |-> Absent, bio |-> Absent,
      url |-> Absent, username |-> Absent, initials |-> Absent, commentCard |-> Absent ]

\* Member.fetch
MemberFetch(self, srv, cl, st) ==
    Bind(Call(srv, cl, "/members/" \o self.id, "GET", [badges |-> FALSE],
              NoArgs, PyNone, st),
         LAMBDA r :
    IF r.exc # "none" THEN Ended(self, self, r)
    ELSE Result([self EXCEPT !.status = Val(r.value.status), !.id = r.value.id,
                             !.bio = Val(r.value.bio), !.url = Val(r.value.url),
                             !.username = Val(r.value.username),
                             !.full_name = Val(r.value.fullName),
                             !.initials = Val(r.value.initials),
                             !.commentCard = Val(r.value.commentCard)],
                r.srv, "none", r.status, <<r.request>>, "self"))

(***************************************************************************)
(* Checklist.  An item is the JSON of the service, to which the library    *)
(* adds the key 'checked'.                                                 *)
(***************************************************************************)

\* json_obj['checked'] = checked
WithChecked(json_obj, checked) ==
    [ id |-> json_obj.id, name |-> json_obj.name, state |-> json_obj.state,
      checked |-> checked ]

\* Checklist.__init__: checked is the card's checkItemStates.
NewChecklistObj(checked, obj, trello_card) ==
    [ trello_card |-> trello_card, id |-> obj.id, name |-> obj.name,
      items |-> [ i \in 1..Len(obj.checkItems) |->
                    WithChecked(obj.checkItems[i],
                                \E c \in 1..Len(checked) :
                                    /\ checked[c].idCheckItem = obj.checkItems[i].id
                                    /\ checked[c].state = "complete") ] ]

\* Checklist.add_checklist_item
AddChecklistItem(self, srv, cl, name, checked, st) ==
    Bind(Call(srv, cl, "/checklists/" \o self.id \o "/checkItems", "POST", NoParams,
              [name |-> name, checked |-> checked], PyNone, st),
         LAMBDA r :
    IF r.exc # "none" THEN Ended(self, self, r)
    ELSE Result([self EXCEPT !.items = Append(@, WithChecked(r.value, checked))],
                r.srv, "none", r.status, <<r.request>>, WithChecked(r.value, checked)))

\* The indices of the items called name: [i for i in range(len(items)) if ...]
Located(self, name) == { i \in 1..Len(self.items) : self.items[i].name = name }

\* The request of set_checklist_item for the item at ix
PutItemState(self, srv, cl, ix, checked, st) ==
    Call(srv, cl, "/cards/" \o self.trello_card \o "/checklist/" \o self.id
                   \o "/checkItem/" \o self.items[ix].id,
         "PUT", NoParams, [state |-> IF checked THEN "complete" ELSE "incomplete"],
         PyNone, st)

\* Checklist.set_checklist_item with the first match taken when several match
SetChecklistItemFirst(self, srv, cl, name, checked, st) ==
    IF Located(self, name) = {}
    THEN Result(self, srv, "none", 0, <<>>, None)
    ELSE Bind(CHOOSE i \in Located(self, name) : \A j \in Located(self, name) : i <= j,
              LAMBDA ix :
         Bind(PutItemState(self, srv, cl, ix, checked, st), LAMBDA r :
         IF r.exc # "none" THEN Ended(self, self, r)
         ELSE Result([self EXCEPT !.items[ix] = WithChecked(r.value, checked)],
                     r.srv, "none", r.status, <<r.request>>,
                     WithChecked(r.value, checked))))

\* Checklist.set_checklist_item: [ix] = ... raises ValueError, which returns,
\* unless exactly one item matches.
SetChecklistItem(self, srv, cl, name, checked, st) ==
    IF Cardinality(Located(self, name)) # 1
    THEN Result(self, srv, "none", 0, <<>>, None)
    ELSE Bind(CHOOSE i \in Located(self, name) : TRUE, LAMBDA ix :
         Bind(PutItemState(self, srv, cl, ix, checked, st), LAMBDA r :
         IF r.exc # "none" THEN Ended(self, self, r)
         ELSE Result([self EXCEPT !.items[ix] = WithChecked(r.value, checked)],
                     r.srv, "none", r.status, <<r.request>>,
                     WithChecked(r.value, checked))))

\* Checklist.rename_checklist_item: the item becomes the JSON returned, as it is.
RenameChecklistItem(self, srv, cl, name, new_name, st) ==
    IF Cardinality(Located(self, name)) # 1
    THEN Result(self, srv, "none", 0, <<>>, None)
    ELSE Bind(CHOOSE i \in Located(self, name) : TRUE, LAMBDA ix :
         Bind(Call(srv, cl, "/cards/" \o self.trello_card \o "/checklist/" \o self.id
                             \o "/checkItem/" \o self.items[ix].id,
                   "PUT", NoParams, [name |-> new_name], PyNone, st),
              LAMBDA r :
         IF r.exc # "none" THEN Ended(self, self, r)
         ELSE Result([self EXCEPT !.items[ix] = r.value],
                     r.srv, "none", r.status, <<r.request>>, r.value)))

(***************************************************************************)
(* Card.                                                                   *)
(***************************************************************************)

\* Card.from_json: the attributes it sets; the others are missing.
CardFromJson(json_obj) ==
    [ id |-> json_obj.id, name |-> Encode(json_obj.name), desc |-> json_obj.desc,
      closed |-> json_obj.closed, url |-> json_obj.url,
      member_ids |-> json_obj.idMembers, idLabels |-> json_obj.idLabels,
      labels |-> json_obj.labels,
      idMembers |-> Absent, idShort |-> Absent, idList |-> Absent, idBoard |-> Absent,
      badges |-> Absent, due |-> Absent, checked |-> Absent,
      dateLastActivity |-> Absent, _checklists |-> Absent, _comments |-> Absent ]

\* Card._set_remote_attribute
CardSetRemoteAttribute(self, srv, cl, attribute, value, st) ==
    Call(srv, cl, "/cards/" \o self.id \o "/" \o attribute, "PUT", NoParams,
         [value |-> value], PyNone, st)

\* Card.set_name with the assignment moved before the remote write
SetNameEarly(self, srv, cl, new_name, st) ==
    Bind(CardSetRemoteAttribute(self, srv, cl, "name", new_name, st), LAMBDA r :
         Result([self EXCEPT !.name = new_name], r.srv, r.exc, r.status, <<r.request>>,
                None))

\* Card.set_name
SetName(self, srv, cl, new_name, st) ==
    Bind(CardSetRemoteAttribute(self, srv, cl, "name", new_name, st), LAMBDA r :
         Ended(self, [self EXCEPT !.name = new_name], r))

\* Card.set_description
SetDescription(self, srv, cl, description, st) ==
    Bind(CardSetRemoteAttribute(self, srv, cl, "desc", description, st), LAMBDA r :
         Ended(self, [self EXCEPT !.desc = description], r))

\* datetime.strftime('%Y-%m-%d'), for years of four digits
Pad2(n) == IF n < 10 THEN "0" \o ToString(n) ELSE ToString(n)

Strftime(d) == ToString(d.year) \o "-" \o Pad2(d.month) \o "-" \o Pad2(d.day)

\* Card.set_due
SetDue(self, srv, cl, due, st) ==
    Bind(Strftime(due), LAMBDA datestr :
    Bind(CardSetRemoteAttribute(self, srv, cl, "due", datestr, st), LAMBDA r :
         Ended(self, [self EXCEPT !.due = Val(datestr)], r)))

\* Card.set_closed
SetClosed(self, srv, cl, closed, st) ==
    Bind(CardSetRemoteAttribute(self, srv, cl, "closed", closed, st), LAMBDA r :
         Ended(self, [self EXCEPT !.closed = closed], r))

\* json_obj.get('due', '') with nothing cut off
SliceNone(str) == str

\* json_obj.get('due', '')[:10]
Slice10(str) == SubSeq(str, 1, IF Len(str) < 10 THEN Len(str) ELSE 10)

\* dateutil's parser.parse
DateParse(str) == [parsed |-> str]

\* Card.fetch_checklists: self.checked is read once per checklist returned.
FetchChecklists(self, srv, cl, st) ==
    Bind(Call(srv, cl, "/cards/" \o self.id \o "/checklists", "GET", NoParams, NoArgs,
              PyNone, st),
         LAMBDA r :
    IF r.exc # "none" THEN Result(self, r.srv, r.exc, r.status, <<r.request>>, <<>>)
    ELSE IF Len(r.value) > 0 /\ ~IsVal(self.checked)
    THEN Result(self, r.srv, "AttributeError", 0, <<r.request>>, <<>>)
    ELSE Result(self, r.srv, "none", r.status, <<r.request>>,
                [ i \in 1..Len(r.value) |->
                     NewChecklistObj(self.checked.v, r.value[i], self.id) ]))

\* Card.fetch_comments with the comments added to those the card has cached
FetchCommentsAppending(self, srv, cl, st) ==
    IF ~IsVal(self.badges) THEN Result(self, srv, "AttributeError", 0, <<>>, <<>>)
    ELSE IF self.badges.v.comments > 0
    THEN Bind(Call(srv, cl, "/cards/" \o self.id \o "/actions", "GET",
                   [filter |-> "commentCard"], NoArgs, PyNone, st),
              LAMBDA r :
         Result(self, r.srv, r.exc, r.status, <<r.request>>,
                IF r.exc = "none"
                THEN (IF IsVal(self._comments) THEN self._comments.v ELSE <<>>) \o r.value
                ELSE <<>>))
    ELSE Result(self, srv, "none", 0, <<>>, <<>>)

\* Card.fetch_comments: no request when the badge counts no comment.
FetchComments(self, srv, cl, st) ==
    IF ~IsVal(self.badges) THEN Result(self, srv, "AttributeError", 0, <<>>, <<>>)
    ELSE IF self.badges.v.comments > 0
    THEN Bind(Call(srv, cl, "/cards/" \o self.id \o "/actions", "GET",
                   [filter |-> "commentCard"], NoArgs, PyNone, st),
              LAMBDA r :
         Result(self, r.srv, r.exc, r.status, <<r.request>>,
                IF r.exc = "none" THEN r.value ELSE <<>>))
    ELSE Result(self, srv, "none", 0, <<>>, <<>>)

\* The attributes Card.fetch assigns from the JSON of the card; due is
\* assigned when the JSON has a due that is neither null nor empty.
FetchedFields(self, j) ==
    [ self EXCEPT
        !.id = j.id, !.name = Encode(j.name), !.desc = j.desc, !.closed = j.closed,
        !.url = j.url, !.idMembers = Val(j.idMembers), !.idShort = Val(j.idShort),
        !.idList = Val(j.idList), !.idBoard = Val(j.idBoard),
        !.idLabels = j.idLabels, !.labels = j.labels, !.badges = Val(j.badges),
        !.due = IF IsVal(j.due) /\ j.due.v # "" THEN Val(Slice10(j.due.v)) ELSE @,
        !.checked = Val(j.checkItemStates),
        !.dateLastActivity = Val(DateParse(j.dateLastActivity)) ]

\* The end of Card.fetch(eager=True), after the attributes are assigned:
\* fetch_checklists, then fetch_comments.
FetchEager(s1, first, srv, cl, k, st) ==
    Bind(FetchChecklists(s1, srv, cl, StatusAt(k, st, 2)), LAMBDA r2 :
    IF r2.exc # "none"
    THEN Result(s1, r2.srv, r2.exc, r2.status, first \o r2.log, None)
    ELSE Bind([s1 EXCEPT !._checklists = Val(r2.ret)], LAMBDA s2 :
         Bind(FetchComments(s2, r2.srv, cl, StatusAt(k, st, 3)), LAMBDA r3 :
         IF r3.exc # "none"
         THEN Result(s2, r3.srv, r3.exc, r3.status, first \o r2.log \o r3.log, None)
         ELSE Result([s2 EXCEPT !._comments = Val(r3.ret)], r3.srv, "none", 200,
                     first \o r2.log \o r3.log, None))))

\* Card.fetch with the memos left alone when it is not eager
CardFetchKeeping(self, srv, cl, eager, k, st) ==
    Bind(Call(srv, cl, "/cards/" \o self.id, "GET", [badges |-> FALSE],
              NoArgs, PyNone, StatusAt(k, st, 1)),
         LAMBDA r1 :
    IF r1.exc # "none"
    THEN Result(self, r1.srv, r1.exc, r1.status, <<r1.request>>, None)
    ELSE Bind(FetchedFields(self, r1.value), LAMBDA s1 :
         IF ~eager
         THEN Result(s1, r1.srv, "none", r1.status, <<r1.request>>, None)
         ELSE FetchEager(s1, <<r1.request>>, r1.srv, cl, k, st)))

\* Card.fetch: the k-th request of the call is answered with st.
CardFetch(self, srv, cl, eager, k, st) ==
    Bind(Call(srv, cl, "/cards/" \o self.id, "GET", [badges |-> FALSE],
              NoArgs, PyNone, StatusAt(k, st, 1)),
         LAMBDA r1 :
    IF r1.exc # "none"
    THEN Result(self, r1.srv, r1.exc, r1.status, <<r1.request>>, None)
    ELSE Bind(FetchedFields(self, r1.value), LAMBDA s1 :
         IF ~eager
         THEN Result([s1 EXCEPT !._checklists = PyNone, !._comments = PyNone],
                     r1.srv, "none", r1.status, <<r1.request>>, None)
         ELSE FetchEager(s1, <<r1.request>>, r1.srv, cl, k, st)))

\* The property Card.comments
Comments(self, srv, cl, st) ==
    IF self._comments = Absent THEN Result(self, srv, "AttributeError", 0, <<>>, <<>>)
    ELSE IF self._comments = PyNone
    THEN Bind(FetchComments(self, srv, cl, st), LAMBDA r :
         IF r.exc # "none" THEN r
         ELSE Result([self EXCEPT !._comments = Val(r.ret)], r.srv, "none", r.status,
                     r.log, r.ret))
    ELSE Result(self, srv, "none", 0, <<>>, self._comments.v)

\* The property Card.checklists, loading whenever the memo is None or empty
ChecklistsFalsy(self, srv, cl, st) ==
    IF self._checklists = Absent THEN Result(self, srv, "AttributeError", 0, <<>>, <<>>)
    ELSE IF self._checklists \in {PyNone, Val(<<>>)}
    THEN Bind(FetchChecklists(self, srv, cl, st), LAMBDA r :
         IF r.exc # "none" THEN r
         ELSE Result([self EXCEPT !._checklists = Val(r.ret)], r.srv, "none", r.status,
                     r.log, r.ret))
    ELSE Result(self, srv, "none", 0, <<>>, self._checklists.v)

\* The property Card.checklists
Checklists(self, srv, cl, st) ==
    IF self._checklists = Absent THEN Result(self, srv, "AttributeError", 0, <<>>, <<>>)
    ELSE IF self._checklists = PyNone
    THEN Bind(FetchChecklists(self, srv, cl, st), LAMBDA r :
         IF r.exc # "none" THEN r
         ELSE Result([self EXCEPT !._checklists = Val(r.ret)], r.srv, "none", r.status,
                     r.log, r.ret))
    ELSE Result(self, srv, "none", 0, <<>>, self._checklists.v)

\* Card.assign
Assign(self, srv, cl, member_id, st) ==
    Bind(Call(srv, cl, "/cards/" \o self.id \o "/members", "POST", NoParams,
              [value |-> member_id], PyNone, st),
         LAMBDA r : Ended(self, self, r))

\* Card.delete, marking the object closed as well
CardDeleteClosing(self, srv, cl, st) ==
    Bind(Call(srv, cl, "/cards/" \o self.id, "DELETE", NoParams, NoArgs, PyNone, st),
         LAMBDA r : Ended(self, [self EXCEPT !.closed = TRUE], r))

\* Card.delete
CardDelete(self, srv, cl, st) ==
    Bind(Call(srv, cl, "/cards/" \o self.id, "DELETE", NoParams, NoArgs, PyNone, st),
         LAMBDA r : Ended(self, self, r))

\* Card.comment
Comment(self, srv, cl, comment_text, st) ==
    Bind(Call(srv, cl, "/cards/" \o self.id \o "/actions/comments", "POST", NoParams,
              [text |-> comment_text], PyNone, st),
         LAMBDA r : Ended(self, self, r))

\* Card._post_remote_data
PostRemoteData(self, srv, cl, attribute, files, kwargs, st) ==
    Call(srv, cl, "/cards/" \o self.id \o "/" \o attribute, "POST", NoParams, kwargs,
         files, st)

\* Card.attach with the check of its arguments left out
AttachUnchecked(self, srv, cl, name, mimeType, file, url, st) ==
    Bind(IF IsVal(file)
         THEN PostRemoteData(self, srv, cl, "attachments",
                             Val([file |-> <<name, file.v, mimeType>>]), NoArgs, st)
         ELSE PostRemoteData(self, srv, cl, "attachments", PyNone,
                             [name |-> name, mimeType |-> mimeType, url |-> url], st),
         LAMBDA r : Ended(self, self, r))

\* Card.attach: file and url are None or present (and then not empty).
Attach(self, srv, cl, name, mimeType, file, url, st) ==
    IF (IsVal(file) /\ IsVal(url)) \/ (~IsVal(file) /\ ~IsVal(url))
    THEN Result(self, srv, "Exception", 0, <<>>, None)
    ELSE Bind(IF IsVal(file)
              THEN PostRemoteData(self, srv, cl, "attachments",
                                  Val([file |-> <<name, file.v, mimeType>>]), NoArgs, st)
              ELSE PostRemoteData(self, srv, cl, "attachments", PyNone,
                                  [name |-> name, mimeType |-> mimeType, url |-> url],
                                  st),
              LAMBDA r : Ended(self, self, r))

\* Card.change_list
ChangeList(self, srv, cl, list_id, st) ==
    Bind(Call(srv, cl, "/cards/" \o self.id \o "/idList", "PUT", NoParams,
              [value |-> list_id], PyNone, st),
         LAMBDA r : Ended(self, self, r))

\* Card.change_board
ChangeBoard(self, srv, cl, board_id, list_id, st) ==
    Bind(Call(srv, cl, "/cards/" \o self.id \o "/idBoard", "PUT", NoParams,
              IF list_id # None THEN [value |-> board_id, idList |-> list_id]
              ELSE [value |-> board_id],
              PyNone, st),
         LAMBDA r : Ended(self, self, r))

\* The loop of Card.add_checklist: one add_checklist_item per name, the first
\* of them being the i-th request of the call.
RECURSIVE AddItems(_, _, _, _, _, _, _, _)
AddItems(clobj, srv, cl, items, itemstates, k, st, i) ==
    IF items = <<>> THEN Result(clobj, srv, "none", 0, <<>>, None)
    ELSE Bind(AddChecklistItem(clobj, srv, cl, Head(items),
                               IF itemstates # <<>> THEN Head(itemstates) ELSE FALSE,
                               StatusAt(k, st, i)),
              LAMBDA r :
         IF r.exc # "none" THEN r
         ELSE Bind(AddItems(r.self, r.srv, cl, Tail(items),
                            IF itemstates # <<>> THEN Tail(itemstates) ELSE <<>>,
                            k, st, i + 1),
                   LAMBDA rest :
              Result(rest.self, rest.srv, rest.exc, rest.status, r.log \o rest.log,
                     None)))

\* k moved on by n requests
Shift(k, n) == IF k > n THEN k - n ELSE IF k = 0 THEN 0 ELSE 0 - 1

\* Card.add_checklist without the fetch that refreshes the card
AddChecklistNoRefresh(self, srv, cl, title, items, itemstates, k, st) ==
    Bind(Call(srv, cl, "/cards/" \o self.id \o "/checklists", "POST", NoParams,
              [name |-> title], PyNone, StatusAt(k, st, 1)),
         LAMBDA r1 :
    IF r1.exc # "none"
    THEN Result(self, r1.srv, r1.exc, r1.status, <<r1.request>>, None)
    ELSE Bind(AddItems(NewChecklistObj(<<>>, r1.value, self.id), r1.srv, cl, items,
                       itemstates, k, st, 2),
              LAMBDA r2 :
         Result(self, r2.srv, r2.exc, r2.status, <<r1.request>> \o r2.log,
                IF r2.exc # "none" THEN None ELSE r2.self)))

\* Card.add_checklist: itemstates is a list (the empty one when None is given).
\* The value returned is the new Checklist.
AddChecklist(self, srv, cl, title, items, itemstates, k, st) ==
    Bind(Call(srv, cl, "/cards/" \o self.id \o "/checklists", "POST", NoParams,
              [name |-> title], PyNone, StatusAt(k, st, 1)),
         LAMBDA r1 :
    IF r1.exc # "none"
    THEN Result(self, r1.srv, r1.exc, r1.status, <<r1.request>>, None)
    ELSE Bind(AddItems(NewChecklistObj(<<>>, r1.value, self.id), r1.srv, cl, items,
                       itemstates, k, st, 2),
              LAMBDA r2 :
         IF r2.exc # "none"
         THEN Result(self, r2.srv, r2.exc, r2.status, <<r1.request>> \o r2.log, None)
         ELSE Bind(CardFetch(self, r2.srv, cl, TRUE, Shift(k, 1 + Len(items)), st),
                   LAMBDA r3 :
              Result(r3.self, r3.srv, r3.exc, r3.status,
                     <<r1.request>> \o r2.log \o r3.log, r2.self))))

\* List.add_card: desc is left at its default, None.
AddCard(self, srv, cl, name, st) ==
    Bind(Call(srv, cl, "/lists/" \o self.id \o "/cards", "POST", NoParams,
              [name |-> name, idList |-> self.id, desc |-> None], PyNone, st),
         LAMBDA r :
    Result(self, r.srv, r.exc, r.status, <<r.request>>,
           IF r.exc = "none" THEN CardFromJson(r.value) ELSE None))

(***************************************************************************)
(* The queries of TrelloClient.                                            *)
(***************************************************************************)

\* Organization.from_json
OrganizationFromJson(json_obj) ==
    [ id |-> json_obj.id, name |-> Encode(json_obj.name),
      description |-> Encode(json_obj.desc), url |-> json_obj.url ]

\* A query of one request: fetch_json, then the JSON mapped by Map.
OneRequest(cl, srv, uri_path, http_method, post_args, st, Map(_)) ==
    Bind(Call(srv, cl, uri_path, http_method, NoParams, post_args, PyNone, st),
         LAMBDA r :
    Result(cl, r.srv, r.exc, r.status, <<r.request>>,
           IF r.exc = "none" THEN Map(r.value) ELSE None))

\* TrelloClient.list_boards
ListBoards(cl, srv, st) ==
    OneRequest(cl, srv, "/members/me/boards", "GET", NoArgs, st,
               LAMBDA json_obj : [i \in 1..Len(json_obj) |-> BoardFromJson(json_obj[i])])

\* TrelloClient.list_organizations
ListOrganizations(cl, srv, st) ==
    OneRequest(cl, srv, "members/me/organizations", "GET", NoArgs, st,
               LAMBDA json_obj :
                   [i \in 1..Len(json_obj) |-> OrganizationFromJson(json_obj[i])])

\* TrelloClient.get_organization
GetOrganization(cl, srv, organization_id, st) ==
    OneRequest(cl, srv, "/organizations/" \o organization_id, "GET", NoArgs, st,
               LAMBDA obj : OrganizationFromJson(obj))

\* TrelloClient.get_board
GetBoard(cl, srv, board_id, st) ==
    OneRequest(cl, srv, "/boards/" \o board_id, "GET", NoArgs, st,
               LAMBDA obj : BoardFromJson(obj))

\* TrelloClient.add_board
AddBoard(cl, srv, board_name, st) ==
    OneRequest(cl, srv, "/boards", "POST", [name |-> board_name], st,
               LAMBDA obj : BoardFromJson(obj))

\* TrelloClient.get_member: Member(self, member_id).fetch()
GetMember(cl, srv, member_id, st) ==
    Bind(MemberFetch(NewMember(member_id, U("")), srv, cl, st), LAMBDA r :
    Result(cl, r.srv, r.exc, r.status, r.log, IF r.exc = "none" THEN r.self ELSE None))

\* TrelloClient.get_card with the board fetched before the list
GetCardBoardFirst(cl, srv, card_id, k, st) ==
    Bind(Call(srv, cl, "/cards/" \o card_id, "GET", NoParams, NoArgs, PyNone,
              StatusAt(k, st, 1)),
         LAMBDA c :
    IF c.exc # "none" THEN Result(cl, c.srv, c.exc, c.status, <<c.request>>, None)
    ELSE Bind(GetBoard(cl, c.srv, c.value.idBoard, StatusAt(k, st, 2)), LAMBDA b :
         IF b.exc # "none"
         THEN Result(cl, b.srv, b.exc, b.status, <<c.request>> \o b.log, None)
         ELSE Bind(Call(b.srv, cl, "/lists/" \o c.value.idList, "GET", NoParams, NoArgs,
                        PyNone, StatusAt(k, st, 3)),
                   LAMBDA l :
              Result(cl, l.srv, l.exc, l.status, <<c.request>> \o b.log \o <<l.request>>,
                     IF l.exc # "none" THEN None
                     ELSE [ card |-> CardFromJson(c.value),
                            trello_list |-> ListFromJson(l.value),
                            board |-> b.ret ]))))

\* TrelloClient.get_card: the card, its list, its board; the k-th request of
\* the call is answered with st.
GetCard(cl, srv, card_id, k, st) ==
    Bind(Call(srv, cl, "/cards/" \o card_id, "GET", NoParams, NoArgs, PyNone,
              StatusAt(k, st, 1)),
         LAMBDA c :
    IF c.exc # "none" THEN Result(cl, c.srv, c.exc, c.status, <<c.request>>, None)
    ELSE Bind(Call(c.srv, cl, "/lists/" \o c.value.idList, "GET", NoParams, NoArgs,
                   PyNone, StatusAt(k, st, 2)),
              LAMBDA l :
         IF l.exc # "none"
         THEN Result(cl, l.srv, l.exc, l.status, <<c.request, l.request>>, None)
         ELSE Bind(GetBoard(cl, l.srv, c.value.idBoard, StatusAt(k, st, 3)), LAMBDA b :
              Result(cl, b.srv, b.exc, b.status, <<c.request, l.request>> \o b.log,
                     IF b.exc # "none" THEN None
                     ELSE [ card |-> CardFromJson(c.value),
                            trello_list |-> ListFromJson(l.value),
                            board |-> b.ret ]))))

\* Checklist.delete
ChecklistDelete(self, srv, cl, st) ==
    Bind(Call(srv, cl, "/checklists/" \o self.id, "DELETE", NoParams, NoArgs, PyNone, st),
         LAMBDA r : Ended(self, self, r))

\* WebHook.delete
WebHookDelete(self, srv, cl, st) ==
    Bind(Call(srv, cl, "/webhooks/" \o self.id, "DELETE", NoParams, NoArgs, PyNone, st),
         LAMBDA r : Ended(self, self, r))

(***************************************************************************)
(* The state after construction, and the calls.                            *)
(***************************************************************************)

\* Two Card objects of the same remote card.
Handles == {1, 2}

Names == {U("n1"), U("n2")}

Descs == {U("d1"), U("d2")}

Datetimes ==
    { [year |-> 2014, month |-> 5, day |-> 1, hour |-> 12],
      [year |-> 2015, month |-> 12, day |-> 24, hour |-> 0] }

Init ==
    /\ client = NewClient("key", "secret", "tok", "toksecret")
    /\ server = InitServer
    /\ card = [h \in Handles |-> CardFromJson(CardJson(InitServer))]
    /\ board = BoardFromJson(BoardJson(InitServer, BoardId))
    /\ trello_list = ListFromJson(ListJson(InitServer, ListId))
    /\ checklist = PyNone
    /\ member = NewMember("m1", U(""))
    /\ webhook = PyNone
    /\ lastOp = [op |-> "init", obj |-> 0, args |-> <<>>]
    /\ outcome = [exc |-> "none", status |-> 0]
    /\ returned = PyNone
    /\ log = <<>>
    /\ calls = 0
    /\ repeated = FALSE
    /\ written = [ name |-> card[1].name, desc |-> card[1].desc, due |-> card[1].due,
                   closed |-> card[1].closed, board_closed |-> board.closed,
                   list_closed |-> trello_list.closed ]

\* What every call records: the operation, how it ended, the requests it
\* issued, and the service after it.
Called(op, obj, args, r) ==
    /\ lastOp' = [op |-> op, obj |-> obj, args |-> args]
    /\ repeated' = (/\ lastOp.op = op /\ lastOp.obj = obj /\ lastOp.args = args
                    /\ outcome.exc = "none" /\ r.exc = "none")
    /\ outcome' = [exc |-> r.exc, status |-> r.status]
    /\ returned' = IF r.exc = "none" THEN Val(r.ret) ELSE PyNone
    /\ log' = r.log
    /\ server' = r.srv
    /\ \A i \in 1..Len(r.log) : r.log[i].answered = 200 => ~Gone(server, r.log[i].sent.url)

CardCalled(op, h, args, r) ==
    /\ Called(op, h, args, r)
    /\ card' = [card EXCEPT ![h] = r.self]

Wrote(field, value, r) ==
    written' = IF r.exc = "none" THEN [written EXCEPT ![field] = value] ELSE written

CallSetName(h, inputs) ==
    \E new_name \in inputs, st \in Statuses :
        \E r \in {SetName(card[h], server, client, new_name, st)} :
           /\ CardCalled("set_name", h, <<new_name>>, r)
           /\ Wrote("name", new_name, r)
           /\ UNCHANGED <<webhook, member, client, board, trello_list, checklist>>

CallSetDescription(h, inputs) ==
    \E description \in inputs, st \in Statuses :
        \E r \in {SetDescription(card[h], server, client, description, st)} :
           /\ CardCalled("set_description", h, <<description>>, r)
           /\ Wrote("desc", description, r)
           /\ UNCHANGED <<webhook, member, client, board, trello_list, checklist>>

CallSetDue(h, inputs) ==
    \E due \in inputs, st \in Statuses :
        \E r \in {SetDue(card[h], server, client, due, st)} :
           /\ CardCalled("set_due", h, <<due>>, r)
           /\ Wrote("due", Val(Strftime(due)), r)
           /\ UNCHANGED <<webhook, member, client, board, trello_list, checklist>>

CallSetClosed(h, inputs) ==
    \E closed \in inputs, st \in Statuses :
        \E r \in {SetClosed(card[h], server, client, closed, st)} :
           /\ CardCalled("set_closed", h, <<closed>>, r)
           /\ Wrote("closed", closed, r)
           /\ UNCHANGED <<webhook, member, client, board, trello_list, checklist>>

CallBoardClose ==
    \E st \in Statuses :
        \E r \in {BoardClose(board, server, client, st)} :
           /\ Called("Board.close", 0, <<>>, r)
           /\ board' = r.self
           /\ Wrote("board_closed", TRUE, r)
           /\ UNCHANGED <<webhook, member, client, card, trello_list, checklist>>

CallBoardOpen ==
    \E st \in Statuses :
        \E r \in {BoardOpen(board, server, client, st)} :
           /\ Called("Board.open", 0, <<>>, r)
           /\ board' = r.self
           /\ Wrote("board_closed", FALSE, r)
           /\ UNCHANGED <<webhook, member, client, card, trello_list, checklist>>

CallListClose ==
    \E st \in Statuses :
        \E r \in {ListClose(trello_list, server, client, st)} :
           /\ Called("List.close", 0, <<>>, r)
           /\ trello_list' = r.self
           /\ Wrote("list_closed", TRUE, r)
           /\ UNCHANGED <<webhook, member, client, card, board, checklist>>

CallListOpen ==
    \E st \in Statuses :
        \E r \in {ListOpen(trello_list, server, client, st)} :
           /\ Called("List.open", 0, <<>>, r)
           /\ trello_list' = r.self
           /\ Wrote("list_closed", FALSE, r)
           /\ UNCHANGED <<webhook, member, client, card, board, checklist>>

CallAssign(h, inputs) ==
    \E member_id \in inputs, st \in Statuses :
        \E r \in {Assign(card[h], server, client, member_id, st)} :
           /\ CardCalled("assign", h, <<member_id>>, r)
           /\ UNCHANGED <<webhook, member, client, board, trello_list, checklist, written>>

CommentTexts == {"hello"}

CallComment(h, inputs) ==
    \E comment_text \in inputs, st \in Statuses :
        \E r \in {Comment(card[h], server, client, comment_text, st)} :
           /\ Room(r.srv)
           /\ CardCalled("comment", h, <<comment_text>>, r)
           /\ UNCHANGED <<webhook, member, client, board, trello_list, checklist, written>>

\* The file and the url given to attach: None, or present.
FileArgs == {PyNone, Val("bytes")}

UrlArgs == {PyNone, Val("http://x/y.png")}

\* attach records the arguments it was called with.
CallAttach(h) ==
    \E file \in FileArgs, url \in UrlArgs, st \in Statuses :
        \E r \in {Attach(card[h], server, client, "a.png", "image/png", file, url, st)} :
           /\ Room(r.srv)
           /\ CardCalled("attach", h, [file |-> file, url |-> url], r)
           /\ UNCHANGED <<webhook, member, client, board, trello_list, checklist, written>>

CallChangeList(h, inputs) ==
    \E list_id \in inputs, st \in Statuses :
        \E r \in {ChangeList(card[h], server, client, list_id, st)} :
           /\ CardCalled("change_list", h, <<list_id>>, r)
           /\ UNCHANGED <<webhook, member, client, board, trello_list, checklist, written>>

CallChangeBoard(h, inputs) ==
    \E board_id \in inputs, list_id \in {None, "L2"}, st \in Statuses :
        \E r \in {ChangeBoard(card[h], server, client, board_id, list_id, st)} :
           /\ CardCalled("change_board", h, <<board_id, list_id>>, r)
           /\ UNCHANGED <<webhook, member, client, board, trello_list, checklist, written>>

\* The items and item states given to add_checklist.
ItemLists == {<<>>, <<"a">>}

ItemStateLists == {<<>>, <<TRUE>>}

\* add_checklist returns the Checklist it made, kept as the Checklist object.
\* Any of its requests up to the upto-th may fail.
CallAddChecklist(h, inputs, upto) ==
    \E items \in inputs, itemstates \in ItemStateLists, k \in 0..upto :
      \E st \in IF k = 0 THEN {200} ELSE Statuses \ {200} :
        \E r \in {AddChecklist(card[h], server, client, "todo", items, itemstates, k, st)} :
           /\ Room(r.srv)
           /\ CardCalled("add_checklist", h, [title |-> "todo", items |-> items], r)
           /\ checklist' = IF r.exc = "none" THEN r.ret ELSE checklist
           /\ UNCHANGED <<webhook, member, client, board, trello_list, written>>

CallFetch(h) ==
    \E eager \in BOOLEAN, k \in 0..3 :
      \E st \in IF k = 0 THEN {200} ELSE Statuses \ {200} :
        \E r \in {CardFetch(card[h], server, client, eager, k, st)} :
           /\ CardCalled("fetch", h, [eager |-> eager], r)
           /\ UNCHANGED <<webhook, member, client, board, trello_list, checklist, written>>

\* Reading the property comments
CallComments(h) ==
    \E st \in Statuses :
        \E r \in {Comments(card[h], server, client, st)} :
           /\ CardCalled("comments", h, <<>>, r)
           /\ UNCHANGED <<webhook, member, client, board, trello_list, checklist, written>>

\* Reading the property checklists
CallChecklists(h) ==
    \E st \in Statuses :
        \E r \in {Checklists(card[h], server, client, st)} :
           /\ CardCalled("checklists", h, <<>>, r)
           /\ UNCHANGED <<webhook, member, client, board, trello_list, checklist, written>>

CallBoardFetch ==
    \E st \in Statuses :
        \E r \in {BoardFetch(board, server, client, st)} :
           /\ Called("Board.fetch", 0, <<>>, r)
           /\ board' = r.self
           /\ UNCHANGED <<webhook, member, client, card, trello_list, checklist, written>>

CallListFetch ==
    \E st \in Statuses :
        \E r \in {ListFetch(trello_list, server, client, st)} :
           /\ Called("List.fetch", 0, <<>>, r)
           /\ trello_list' = r.self
           /\ UNCHANGED <<webhook, member, client, card, board, checklist, written>>

CallMemberFetch ==
    \E st \in Statuses :
        \E r \in {MemberFetch(member, server, client, st)} :
           /\ Called("Member.fetch", 0, <<>>, r)
           /\ member' = r.self
           /\ UNCHANGED <<webhook, client, card, board, trello_list, checklist, written>>

\* The names of checklist items.
ItemNames == {"a", "b"}

\* A call on the Checklist object: the name it is given is recorded.
ChecklistCalled(op, name, r) ==
    /\ checklist # PyNone
    /\ Room(r.srv)
    /\ Called(op, 0, [name |-> name], r)
    /\ checklist' = r.self
    /\ UNCHANGED <<webhook, member, client, card, board, trello_list, written>>

CallAddChecklistItem ==
    \E name \in ItemNames, checked \in BOOLEAN, st \in Statuses :
        /\ checklist # PyNone
        /\ ChecklistCalled("add_checklist_item", name,
                           AddChecklistItem(checklist, server, client, name, checked, st))

CallSetChecklistItem ==
    \E name \in ItemNames, checked \in BOOLEAN, st \in Statuses :
        /\ checklist # PyNone
        /\ ChecklistCalled("set_checklist_item", name,
                           SetChecklistItem(checklist, server, client, name, checked, st))

CallRenameChecklistItem ==
    \E name \in ItemNames, new_name \in ItemNames, st \in Statuses :
        /\ checklist # PyNone
        /\ ChecklistCalled("rename_checklist_item", name,
                           RenameChecklistItem(checklist, server, client, name, new_name,
                                               st))

\* Another user of the service removes the due date of the card.
RemoteClearDue ==
    /\ IsVal(server.card.due)
    /\ server' = [server EXCEPT !.card.due = PyNone]
    /\ lastOp' = [op |-> "remote", obj |-> 0, args |-> <<>>]
    /\ outcome' = [exc |-> "none", status |-> 0]
    /\ returned' = PyNone
    /\ log' = <<>>
    /\ repeated' = FALSE
    /\ UNCHANGED <<webhook, member, client, card, board, trello_list, checklist, written>>

\* A direct call of TrelloClient.fetch_json.
Methods == {"GET", "POST", "PUT", "DELETE"}

Paths == {"/members/me/boards", "members/me/organizations"}

Bodies == {"[]", "{'id': 'x'}"}

\* response.json()
Json(body) == [parsed |-> body]

Files == {PyNone, Val([file |-> <<"name", "bytes", "text/plain">>])}

CallFetchJson ==
    \E uri_path \in Paths, http_method \in Methods, files \in Files,
       st \in HttpStatuses, body \in Bodies :
        \E r \in {FetchJson(client, uri_path, http_method, NoParams, NoArgs, files,
                           [status |-> st, body |-> Json(body)])} :
           /\ lastOp' = [op |-> "fetch_json", obj |-> 0, args |-> <<uri_path, http_method>>]
           /\ outcome' = [exc |-> r.exc, status |-> r.status]
           /\ returned' = IF r.exc = "none" THEN Val(r.value) ELSE PyNone
           /\ log' = <<r.request>>
           /\ repeated' = FALSE
           /\ UNCHANGED <<webhook, member, client, server, card, board, trello_list, checklist, written>>

(***************************************************************************)
(* SpecTransport: fetch_json called with any method and path, answered     *)
(* with any status.                                                        *)
(***************************************************************************)

NextTransport == CallFetchJson /\ UNCHANGED calls

SpecTransport == Init /\ [][NextTransport]_vars

\* The status the service answered the (only) request of the last call with.
Answered == log[1].answered

\* C2: for every status, fetch_json issues exactly one request; 401 raises
\* Unauthorized, any other status but 200 raises ResourceUnavailable, both
\* carrying the status; 200 returns the parsed body.
C2_StatusMapping ==
    lastOp.op = "fetch_json" =>
        /\ Len(log) = 1
        /\ (Answered = 401 => outcome = [exc |-> "Unauthorized", status |-> 401])
        /\ (Answered \notin {200, 401} =>
                outcome = [exc |-> "ResourceUnavailable", status |-> Answered])
        /\ (Answered = 200 => outcome.exc = "none" /\ returned \in {Val(Json(b)) : b \in Bodies})
        /\ (outcome.exc # "none" => returned = PyNone)

\* C2 witness: each of the three outcomes, each with its request sent to the
\* API origin.
C2_Witness ==
    /\ lastOp.op = "fetch_json"
    /\ Answered = 404
    /\ outcome.exc = "ResourceUnavailable"
    /\ log[1].sent.url = Origin \o "members/me/boards"
    /\ log[1].sent.method = "PUT"

\* C3 as claimed: a 2xx status never makes fetch_json raise.
C3_Claimed ==
    lastOp.op = "fetch_json" /\ Answered >= 200 /\ Answered < 300 => outcome.exc = "none"

\* C3 as amended: every status but 200 is turned into a failure, the other
\* 2xx statuses (201, 204) included: fetch_json raises ResourceUnavailable for
\* them, and returns only for 200.
C3_Only200Returns ==
    lastOp.op = "fetch_json" =>
        /\ (outcome.exc = "none" <=> Answered = 200)
        /\ (Answered \in {201, 204} => outcome.exc = "ResourceUnavailable")

\* C3 witness: a 204 answer raised ResourceUnavailable.
C3_Witness ==
    /\ lastOp.op = "fetch_json"
    /\ Answered = 204
    /\ outcome = [exc |-> "ResourceUnavailable", status |-> 204]

(***************************************************************************)
(* SpecClient: clients built with and without a token, and their webhook   *)
(* operations.                                                             *)
(***************************************************************************)

\* The token argument of list_hooks and create_hook.
TokenArgs == {None} \cup TokenValues

\* The token the client is built with.
Tokens == {None, "tok"}

CallNewClient ==
    \E token \in Tokens :
        /\ client' = NewClient("key", "secret", token,
                               IF token = None THEN None ELSE "toksecret")
        /\ lastOp' = [op |-> "TrelloClient", obj |-> 0, args |-> [token |-> token]]
        /\ outcome' = [exc |-> "none", status |-> 0]
        /\ returned' = PyNone
        /\ log' = <<>>
        /\ repeated' = FALSE
        /\ UNCHANGED <<webhook, member, server, card, board, trello_list, checklist, written>>

ClientCalled(op, token, r) ==
    /\ Called(op, 0, [token |-> token], r)
    /\ UNCHANGED <<webhook, member, client, card, board, trello_list, checklist, written>>

CallListHooks ==
    \E token \in TokenArgs, st \in Statuses :
        ClientCalled("list_hooks", token, ListHooks(client, server, token, st))

\* create_hook; the caller keeps the WebHook it returns.
CallCreateHook ==
    \E token \in TokenArgs, st \in Statuses :
        \E r \in {CreateHook(client, server, "http://cb", BoardId, "desc", token, st)} :
           /\ Len(server.hooks) < MaxHooks
           /\ Called("create_hook", 0, [token |-> token], r)
           /\ webhook' = IF r.exc = "none" /\ r.ret # PyFalse THEN r.ret ELSE webhook
           /\ UNCHANGED <<member, client, card, board, trello_list, checklist, written>>

\* The actions argument of info_for_all_boards.
ActionFilters == {"all", "commentCard"}

CallInfoForAllBoards ==
    \E actions \in ActionFilters, st \in Statuses :
        \E r \in {InfoForAllBoards(client, server, actions, st)} :
           /\ Called("info_for_all_boards", 0, [actions |-> actions], r)
           /\ client' = r.self
           /\ UNCHANGED <<webhook, member, card, board, trello_list, checklist, written>>

NextClient ==
    /\ UNCHANGED calls
    /\ \/ CallNewClient
       \/ CallListHooks
       \/ CallCreateHook
       \/ CallInfoForAllBoards

SpecClient == Init /\ [][NextClient]_vars

HookOps == {"list_hooks", "create_hook"}

\* C4: list_hooks and create_hook raise TokenError, and issue no request, when
\* called without a token on a client that stores none; with a token passed or
\* stored they do not raise TokenError, and issue one request.
C4_TokenRequired ==
    lastOp.op \in HookOps =>
        IF lastOp.args.token = None /\ client.resource_owner_key = None
        THEN outcome.exc = "TokenError" /\ log = <<>>
        ELSE outcome.exc # "TokenError" /\ Len(log) = 1

\* C4 witness: the token passed to create_hook stood in for the one the client
\* lacks, and the webhook was created under it.
C4_Witness ==
    /\ lastOp.op = "create_hook"
    /\ lastOp.args.token = "tok2"
    /\ client.resource_owner_key = None
    /\ IsVal(returned)
    /\ returned.v.token = "tok2"
    /\ log[1].sent.url = HooksUrl("tok2")

\* C14: on a client built without a token info_for_all_boards issues no
\* request, returns None and leaves the client (and the service) as it was;
\* on a client built with a token it issues the one request for the boards,
\* and when that is answered 200 stashes the JSON in all_info and returns None.
C14_PublicOnlyNoOp ==
    [][ lastOp'.op = "info_for_all_boards" =>
          IF client.public_only
          THEN /\ log' = <<>>
               /\ outcome'.exc = "none"
               /\ client' = client
               /\ server' = server
               /\ returned' = Val(None)
          ELSE /\ Len(log') = 1
               /\ log'[1].sent.method = "GET"
               /\ log'[1].sent.url = Origin \o "members/me/boards/all"
               /\ IF log'[1].answered = 200
                  THEN /\ outcome'.exc = "none"
                       /\ client' = [client EXCEPT !.all_info = Val(BoardsJson(server))]
                       /\ returned' = Val(None)
                  ELSE /\ IsResourceUnavailable(outcome'.exc)
                       /\ client' = client ]_vars

\* C14 witness: info_for_all_boards did nothing on a client without a token.
C14_Witness ==
    /\ lastOp.op = "info_for_all_boards"
    /\ client.public_only
    /\ client.resource_owner_key = None
    /\ log = <<>>
    /\ client.all_info = Absent
    /\ returned = Val(None)

(***************************************************************************)
(* SpecMirror: the mutators that write one field and mirror it, called in  *)
(* any order on one Card, one Board and one List.                          *)
(***************************************************************************)

NextMirror ==
    /\ UNCHANGED calls
    /\ \/ CallSetName(1, Names)
       \/ CallSetDescription(1, Descs)
       \/ CallSetDue(1, Datetimes)
       \/ CallSetClosed(1, BOOLEAN)
       \/ CallBoardClose
       \/ CallBoardOpen
       \/ CallListClose
       \/ CallListOpen

SpecMirror == Init /\ [][NextMirror]_vars

Mirrored == {"set_name", "set_description", "set_due", "set_closed",
             "Board.close", "Board.open", "List.close", "List.open"}

\* C1 (write-then-mirror): after any sequence of set_name, set_description,
\* set_due, set_closed, Board.close/open and List.close/open calls, each cached
\* field holds the value of the last call whose remote write succeeded (for
\* due, the date written), or its initial value; and a call whose remote write
\* fails raises a ResourceUnavailable and changes no field of any object.
C1_WriteThenMirror ==
    /\ [](/\ card[1].name = written.name
          /\ card[1].desc = written.desc
          /\ card[1].due = written.due
          /\ card[1].closed = written.closed
          /\ board.closed = written.board_closed
          /\ trello_list.closed = written.list_closed
          /\ (lastOp.op \in Mirrored /\ outcome.exc # "none" =>
                IsResourceUnavailable(outcome.exc)))
    /\ [][lastOp'.op \in Mirrored /\ outcome'.exc # "none"
            => card' = card /\ board' = board /\ trello_list' = trello_list]_vars

\* C1 witness: a write failed after another had succeeded with another name.
C1_Witness ==
    /\ lastOp.op = "set_name"
    /\ outcome.exc = "ResourceUnavailable"
    /\ card[1].name = U("n2")
    /\ written.due # Absent
    /\ board.closed
(***************************************************************************)
(* SpecSetters: the ten setters of Card, called in any order on one Card,   *)
(* MaxCalls calls in a run.                                                *)
(***************************************************************************)

\* The number of calls in a run of SpecSetters.
MaxCalls == 3

NextSetters ==
    /\ calls < MaxCalls
    /\ calls' = calls + 1
    /\ \/ CallSetName(1, Names)
       \/ CallSetDescription(1, Descs)
       \/ CallSetDue(1, Datetimes)
       \/ CallSetClosed(1, BOOLEAN)
       \/ CallChangeList(1, ListIds)
       \/ CallChangeBoard(1, BoardIds)
       \/ CallAssign(1, MemberIds)
       \/ CallComment(1, CommentTexts)
       \/ CallAttach(1)
       \/ CallAddChecklist(1, ItemLists, 5)

SpecSetters == Init /\ [][NextSetters]_vars

\* C10 as claimed: every one of the setters, its remote write done, mirrors
\* the change into the cached attribute of the card: the new name, description,
\* due date and closed flag, the id of the new list and of the new board, the
\* member among the cached member ids, the comment among the cached comments,
\* the checklist among the cached checklists.
C10_Claimed ==
    outcome.exc = "none" =>
        /\ (lastOp.op = "set_name" => card[1].name = lastOp.args[1])
        /\ (lastOp.op = "set_description" => card[1].desc = lastOp.args[1])
        /\ (lastOp.op = "set_due" => card[1].due = Val(Strftime(lastOp.args[1])))
        /\ (lastOp.op = "set_closed" => card[1].closed = lastOp.args[1])
        /\ (lastOp.op = "change_list" => card[1].idList = Val(lastOp.args[1]))
        /\ (lastOp.op = "change_board" => card[1].idBoard = Val(lastOp.args[1]))
        /\ (lastOp.op = "assign" =>
                \/ \E i \in 1..Len(card[1].member_ids) :
                        card[1].member_ids[i] = lastOp.args[1]
                \/ /\ IsVal(card[1].idMembers)
                   /\ \E i \in 1..Len(card[1].idMembers.v) :
                        card[1].idMembers.v[i] = lastOp.args[1])
        /\ (lastOp.op = "comment" =>
                /\ IsVal(card[1]._comments)
                /\ \E i \in 1..Len(card[1]._comments.v) :
                        card[1]._comments.v[i] = lastOp.args[1])
        /\ (lastOp.op = "add_checklist" =>
                /\ IsVal(card[1]._checklists)
                /\ \E i \in 1..Len(card[1]._checklists.v) :
                        card[1]._checklists.v[i].name = lastOp.args.title)

(***************************************************************************)
(* SpecAttach: attach called with a file, a url, both or neither, between  *)
(* other writes to the card.                                               *)
(***************************************************************************)

NextAttach ==
    /\ UNCHANGED calls
    /\ \/ CallAttach(1)
       \/ CallComment(1, CommentTexts)
       \/ CallAssign(1, MemberIds)
       \/ CallSetName(1, Names)
       \/ CallSetClosed(1, BOOLEAN)

SpecAttach == Init /\ [][NextAttach]_vars

\* C5: attach with exactly one of file and url issues one POST to the
\* attachments of the card, and returns when that is answered 200; with both
\* or neither it raises the validation failure and issues no request.
C5_AttachExactlyOne ==
    lastOp.op = "attach" =>
        IF IsVal(lastOp.args.file) # IsVal(lastOp.args.url)
        THEN /\ Len(log) = 1
             /\ log[1].sent.method = "POST"
             /\ log[1].sent.url = CardUrl("/attachments")
             /\ (log[1].answered = 200 => outcome.exc = "none")
             /\ outcome.exc # "Exception"
        ELSE /\ outcome.exc = "Exception"
             /\ log = <<>>

\* C5 witness: attach was refused for a file given together with a url, on a
\* card an earlier attach had added an attachment to.
C5_Witness ==
    /\ lastOp.op = "attach"
    /\ IsVal(lastOp.args.file) /\ IsVal(lastOp.args.url)
    /\ outcome.exc = "Exception"
    /\ log = <<>>
    /\ server.card.attachments = 1

(***************************************************************************)
(* SpecChecklist: one checklist made by add_checklist, and the operations  *)
(* on its items.                                                           *)
(***************************************************************************)

NextChecklist ==
    /\ UNCHANGED calls
    /\ \/ (checklist = PyNone /\ CallAddChecklist(1, {<<>>}, 1))
       \/ CallAddChecklistItem
       \/ CallSetChecklistItem
       \/ CallRenameChecklistItem

SpecChecklist == Init /\ [][NextChecklist]_vars

ItemOps == {"set_checklist_item", "rename_checklist_item"}

\* C6: set_checklist_item and rename_checklist_item, when the cached items
\* called name are none or several, return None without raising, issue no
\* request, and leave the items (and the service) as they were.
C6_AmbiguousNameNoOp ==
    [][ (/\ lastOp'.op \in ItemOps
         /\ Cardinality(Located(checklist, lastOp'.args.name)) # 1)
        => /\ outcome'.exc = "none"
           /\ log' = <<>>
           /\ checklist' = checklist
           /\ server' = server
           /\ returned' = Val(None) ]_vars

\* C6 witness: set_checklist_item did nothing for a name two items share.
C6_Witness ==
    /\ lastOp.op = "set_checklist_item"
    /\ log = <<>>
    /\ Len(checklist.items) = 2
    /\ checklist.items[1].name = lastOp.args.name
    /\ checklist.items[2].name = lastOp.args.name
    /\ checklist.items[1].id # checklist.items[2].id

(***************************************************************************)
(* SpecFetch: two Card objects of one remote card, fetched and read in any *)
(* order while the card changes remotely.                                  *)
(***************************************************************************)

\* The due date set in these runs.
OneDatetime == {[year |-> 2014, month |-> 5, day |-> 1, hour |-> 12]}

NextFetch ==
    /\ UNCHANGED calls
    /\ \/ \E h \in Handles : CallFetch(h)
       \/ CallComments(1)
       \/ CallChecklists(1)
       \/ CallSetDue(1, OneDatetime)
       \/ CallComment(2, CommentTexts)
       \/ RemoteClearDue

SpecFetch == Init /\ [][NextFetch]_vars

LazyOps == {"comments", "checklists"}

\* The attribute the property read last memoizes in.
Memo(c) == IF lastOp.op = "comments" THEN c._comments ELSE c._checklists

\* C7 as claimed: on any Card, one built by from_json included, reading
\* comments or checklists returns (or fails as the transport fails): the first
\* read fetches and memoizes, and a read of a memoized value returns it and
\* issues no request, whatever the service holds by then.
C7_Claimed ==
    /\ [](lastOp.op \in LazyOps =>
            /\ outcome.exc \in {"none", "Unauthorized", "ResourceUnavailable"}
            /\ (outcome.exc = "none" => Memo(card[lastOp.obj]) = returned))
    /\ [][ (lastOp'.op \in LazyOps /\ IsVal(card[lastOp'.obj]._comments)
                                  /\ IsVal(card[lastOp'.obj]._checklists))
           => log' = <<>> /\ card' = card /\ outcome'.exc = "none" ]_vars

\* C8 as claimed: two objects of the same card, fetched one after the other
\* with the same arguments from the same state of the service, end in the
\* same state, whatever each had cached.
C8_Claimed ==
    [][ (/\ lastOp.op = "fetch" /\ outcome.exc = "none"
         /\ lastOp'.op = "fetch" /\ outcome'.exc = "none"
         /\ lastOp'.obj # lastOp.obj
         /\ lastOp'.args = lastOp.args)
        => card'[1] = card'[2] ]_vars

(***************************************************************************)
(* SpecRefetch: a Card, a Board, a List and a Member, fetched in any order *)
(* while the card is written to and changes remotely.                      *)
(***************************************************************************)

NextRefetch ==
    /\ UNCHANGED calls
    /\ \/ CallFetch(1)
       \/ CallSetDue(1, OneDatetime)
       \/ CallComment(1, CommentTexts)
       \/ RemoteClearDue
       \/ CallBoardFetch
       \/ CallListFetch
       \/ CallMemberFetch

SpecRefetch == Init /\ [][NextRefetch]_vars

FetchOps == {"fetch", "Board.fetch", "List.fetch", "Member.fetch"}

\* C9: a fetch that repeats, with the same arguments, the fetch just made on
\* the same object leaves every object as the first fetch left it.
C9_FetchIdempotent ==
    [][ (/\ lastOp.op \in FetchOps /\ outcome.exc = "none"
         /\ lastOp'.op = lastOp.op /\ lastOp'.obj = lastOp.obj
         /\ lastOp'.args = lastOp.args
         /\ outcome'.exc = "none")
        => /\ card' = card
           /\ board' = board
           /\ trello_list' = trello_list
           /\ member' = member ]_vars

\* C9 witness: an eager fetch repeated on a card with a comment, whose cached
\* due date the service no longer has.
C9_Witness ==
    /\ repeated
    /\ lastOp.op = "fetch"
    /\ lastOp.args.eager
    /\ card[lastOp.obj]._comments = Val(<<"hello">>)
    /\ IsVal(card[lastOp.obj].due)
    /\ server.card.due = PyNone

(***************************************************************************)
(* SpecQueries: the queries of TrelloClient, while the card moves between  *)
(* lists and boards.                                                       *)
(***************************************************************************)

BoardNames == {U("nb")}

\* A query of the client: it changes no object.
Queried(op, args, r) ==
    /\ Room(r.srv)
    /\ Called(op, 0, args, r)
    /\ UNCHANGED <<webhook, member, client, card, board, trello_list, checklist, written>>

CallListBoards ==
    \E st \in Statuses : Queried("list_boards", <<>>, ListBoards(client, server, st))

CallListOrganizations ==
    \E st \in Statuses :
        Queried("list_organizations", <<>>, ListOrganizations(client, server, st))

CallGetOrganization ==
    \E id \in OrganizationIds, st \in Statuses :
        Queried("get_organization", <<id>>, GetOrganization(client, server, id, st))

CallGetBoard ==
    \E id \in BoardIds, st \in Statuses :
        Queried("get_board", <<id>>, GetBoard(client, server, id, st))

CallAddBoard ==
    \E name \in BoardNames, st \in Statuses :
        Queried("add_board", <<name>>, AddBoard(client, server, name, st))

CallGetMember ==
    \E id \in MemberIds, st \in Statuses :
        Queried("get_member", <<id>>, GetMember(client, server, id, st))

CallGetCard ==
    \E k \in 0..3 :
      \E st \in IF k = 0 THEN {200} ELSE Statuses \ {200} :
        Queried("get_card", <<CardId>>, GetCard(client, server, CardId, k, st))

NextQueries ==
    /\ UNCHANGED calls
    /\ \/ CallListBoards
       \/ CallListOrganizations
       \/ CallGetOrganization
       \/ CallGetBoard
       \/ CallAddBoard
       \/ CallGetMember
       \/ CallGetCard
       \/ CallChangeList(1, ListIds)
       \/ CallChangeBoard(1, BoardIds)

SpecQueries == Init /\ [][NextQueries]_vars

\* The one request of each query of one request.
QueryRequest ==
    [ list_boards        |-> [method |-> "GET", url |-> Origin \o "members/me/boards"],
      list_organizations |-> [method |-> "GET", url |-> Origin \o "members/me/organizations"],
      get_organization   |-> [method |-> "GET", url |-> Origin \o "organizations/o1"],
      add_board          |-> [method |-> "POST", url |-> Origin \o "boards"],
      get_member         |-> [method |-> "GET", url |-> Origin \o "members/m1"] ]

\* The urls get_card asks for, in order, given the card the service holds.
GetCardUrls ==
    << CardUrl(""), Origin \o "lists/" \o server.card.idList,
       Origin \o "boards/" \o server.card.idBoard >>

\* C12: list_boards, list_organizations, get_board, get_organization,
\* get_member and add_board each issue exactly one request; get_card asks for
\* the card, then the card's list, then the card's board, stops at the first
\* of them that fails, and raises its failure.
C12_QueryRequests ==
    /\ (lastOp.op \in DOMAIN QueryRequest =>
            /\ Len(log) = 1
            /\ log[1].sent.method = QueryRequest[lastOp.op].method
            /\ log[1].sent.url = QueryRequest[lastOp.op].url)
    /\ (lastOp.op = "get_board" =>
            /\ Len(log) = 1
            /\ log[1].sent.method = "GET"
            /\ log[1].sent.url = Origin \o "boards/" \o lastOp.args[1])
    /\ (lastOp.op = "get_card" =>
            /\ Len(log) \in 1..3
            /\ \A i \in 1..Len(log) :
                  /\ log[i].sent.method = "GET"
                  /\ log[i].sent.url = GetCardUrls[i]
                  /\ (i < Len(log) => log[i].answered = 200)
            /\ IF log[Len(log)].answered = 200
               THEN Len(log) = 3 /\ outcome.exc = "none"
               ELSE IsResourceUnavailable(outcome.exc) /\ returned = PyNone)

\* C12 witness: get_card stopped at the list of a card that had moved to
\* another list, the board never asked for.
C12_Witness ==
    /\ lastOp.op = "get_card"
    /\ Len(log) = 2
    /\ log[2].sent.url = Origin \o "lists/L2"
    /\ log[2].answered = 401
    /\ outcome.exc = "Unauthorized"

(***************************************************************************)
(* SpecRoundTrip: a card made by add_card, its due date set and fetched,   *)
(* while another user of the service sets due dates with a time of day.    *)
(***************************************************************************)

\* add_card returns the Card it made, kept as the Card object h.
CallAddCard(h, inputs) ==
    \E name \in inputs, st \in Statuses :
        \E r \in {AddCard(trello_list, server, client, name, st)} :
           /\ Room(r.srv)
           /\ Called("add_card", h, <<name>>, r)
           /\ card' = IF r.exc = "none" THEN [card EXCEPT ![h] = r.ret] ELSE card
           /\ UNCHANGED <<webhook, member, client, board, trello_list, checklist, written>>

\* The due dates another user sets: a date with a time of day.
RemoteDues == {"2015-12-24T18:30:00.000Z"}

\* Another user of the service sets the due date of a card add_card made.
RemoteSetDue ==
    \E i \in 1..Len(server.made), due \in RemoteDues :
        /\ server' = [server EXCEPT !.made[i].due = Val(due)]
        /\ lastOp' = [op |-> "remote", obj |-> 0, args |-> <<>>]
        /\ outcome' = [exc |-> "none", status |-> 0]
        /\ returned' = PyNone
        /\ log' = <<>>
        /\ repeated' = FALSE
        /\ UNCHANGED <<webhook, member, client, card, board, trello_list, checklist, written>>

NextRoundTrip ==
    /\ UNCHANGED calls
    /\ \/ CallAddCard(2, Names)
       \/ CallSetDue(2, Datetimes)
       \/ CallFetch(2)
       \/ RemoteSetDue

SpecRoundTrip == Init /\ [][NextRoundTrip]_vars

\* The due date the service holds for the card of Card object h.
ServerDue(h) ==
    IF card[h].id = CardId THEN server.card.due
    ELSE server.made[CHOOSE i \in 1..Len(server.made) : server.made[i].id = card[h].id].due

\* C13: the due date a card caches is always the 10 characters of a date;
\* after a fetch it is the date of what the service holds, the time of day
\* cut off; and a fetch right after a set_due(d) that was carried out leaves
\* it at d formatted as YYYY-MM-DD.
C13_DueRoundTrip ==
    /\ [](\A h \in Handles :
            /\ (IsVal(card[h].due) => Len(card[h].due.v) = 10)
            /\ (/\ lastOp.op = "fetch" /\ lastOp.obj = h /\ outcome.exc = "none"
                /\ IsVal(ServerDue(h))
                => /\ IsVal(card[h].due)
                   /\ SubSeq(ServerDue(h).v, 1, 10) = card[h].due.v
                   /\ Len(ServerDue(h).v) > 10))
    /\ [][ (/\ lastOp.op = "set_due" /\ outcome.exc = "none"
            /\ lastOp'.op = "fetch" /\ lastOp'.obj = lastOp.obj /\ outcome'.exc = "none")
           => card'[lastOp.obj].due = Val(Strftime(lastOp.args[1])) ]_vars

\* C13 witness: a card made by add_card, whose due date had been set, was
\* fetched after another user had set a due date with a time of day.
C13_Witness ==
    /\ card[2].id = "c2"
    /\ lastOp.op = "fetch" /\ outcome.exc = "none"
    /\ written.due = Val("2014-05-01")
    /\ ServerDue(2) = Val("2015-12-24T18:30:00.000Z")
    /\ card[2].due = Val("2015-12-24")

(***************************************************************************)
(* SpecDelete: a card, a checklist and a webhook are deleted, and their    *)
(* objects are used afterwards.                                            *)
(***************************************************************************)

CallCardDelete(h) ==
    \E st \in Statuses :
        \E r \in {CardDelete(card[h], server, client, st)} :
           /\ CardCalled("Card.delete", h, <<>>, r)
           /\ UNCHANGED <<webhook, member, client, board, trello_list, checklist, written>>

CallChecklistDelete ==
    \E st \in Statuses :
        /\ checklist # PyNone
        /\ \E r \in {ChecklistDelete(checklist, server, client, st)} :
              /\ Called("Checklist.delete", 0, <<>>, r)
              /\ checklist' = r.self
              /\ UNCHANGED <<webhook, member, client, card, board, trello_list, written>>

CallWebHookDelete ==
    \E st \in Statuses :
        /\ webhook # PyNone
        /\ \E r \in {WebHookDelete(webhook, server, client, st)} :
              /\ Called("WebHook.delete", 0, <<>>, r)
              /\ webhook' = r.self
              /\ UNCHANGED <<member, client, card, board, trello_list, checklist, written>>

NextDelete ==
    /\ UNCHANGED calls
    /\ \/ CallCardDelete(1)
       \/ CallChecklistDelete
       \/ CallWebHookDelete
       \/ CallSetName(1, {U("n2")})
       \/ checklist = PyNone /\ CallAddChecklist(1, {<<>>}, 1)
       \/ CallAddChecklistItem
       \/ webhook = PyNone /\ CallCreateHook

SpecDelete == Init /\ [][NextDelete]_vars

DeleteOps == {"Card.delete", "Checklist.delete", "WebHook.delete"}

\* The url a delete addresses, from the object as it was before the call.
DeleteUrl(op, h) ==
    Origin \o (CASE op = "Card.delete"      -> "cards/" \o card[h].id
                 [] op = "Checklist.delete" -> "checklists/" \o checklist.id
                 [] op = "WebHook.delete"   -> "webhooks/" \o webhook.id)

\* C15: delete on a Card, a Checklist or a WebHook issues exactly one request,
\* a DELETE of the object's url, and changes no field of the object; a call
\* made later on the object of a deleted card or checklist still issues a
\* request.
C15_DeleteKeepsObject ==
    /\ [][ lastOp'.op \in DeleteOps =>
             /\ Len(log') = 1
             /\ log'[1].sent.method = "DELETE"
             /\ log'[1].sent.url = DeleteUrl(lastOp'.op, lastOp'.obj)
             /\ card' = card /\ checklist' = checklist /\ webhook' = webhook ]_vars
    /\ [](/\ (lastOp.op \in {"set_name", "Card.delete", "add_checklist"}
               /\ card[1].id \in server.gone => Len(log) >= 1)
          /\ (lastOp.op \in {"add_checklist_item", "Checklist.delete"}
               /\ checklist.id \in server.gone => Len(log) >= 1)
          /\ (lastOp.op = "WebHook.delete" /\ webhook.id \in server.gone
               => Len(log) = 1))

\* C15 witness: the card, the checklist and the webhook have been deleted, the
\* three objects still hold their ids, and set_name on the card object has
\* issued its request, which the service refused.
C15_Witness ==
    /\ checklist # PyNone /\ webhook # PyNone
    /\ {card[1].id, checklist.id, webhook.id} \subseteq server.gone
    /\ lastOp.op = "set_name" /\ Len(log) = 1 /\ outcome.exc # "none"

(***************************************************************************)
(* SpecLazy: one Card object is fetched, eagerly or not, its comments and  *)
(* checklists are read, and comments are added to the card.                *)
(***************************************************************************)

NextLazy ==
    /\ UNCHANGED calls
    /\ \/ CallFetch(1)
       \/ CallComments(1)
       \/ CallChecklists(1)
       \/ CallComment(1, CommentTexts)

SpecLazy == Init /\ [][NextLazy]_vars

\* C17: a read of comments or checklists whose memo holds the empty list
\* issues no request, returns the empty list and leaves the memo as it is; and
\* a read of comments on a fetched card whose badge counts no comment issues
\* no request and memoizes the empty list.
C17_EmptyIsMemoized ==
    [][ /\ (lastOp'.op = "comments" /\ card[1]._comments = Val(<<>>)
            => log' = <<>> /\ outcome'.exc = "none" /\ card' = card
               /\ returned' = Val(<<>>))
        /\ (lastOp'.op = "checklists" /\ card[1]._checklists = Val(<<>>)
            => log' = <<>> /\ outcome'.exc = "none" /\ card' = card
               /\ returned' = Val(<<>>))
        /\ (lastOp'.op = "comments" /\ card[1]._comments = PyNone
            /\ card[1].badges.v.comments = 0
            => log' = <<>> /\ card'[1]._comments = Val(<<>>)) ]_vars

\* C17 witness: checklists has been read twice in a row after a fetch that
\* was not eager; the second read found the empty list memoized and issued no
\* request, though the first had issued one.
C17_Witness ==
    /\ lastOp.op = "checklists" /\ repeated
    /\ log = <<>> /\ returned = Val(<<>>)
    /\ card[1]._checklists = Val(<<>>)
    /\ card[1]._comments = PyNone

\* Whether the last call was a fetch that returned, eager or not as given.
Fetched(eager) ==
    lastOp.op = "fetch" /\ outcome.exc = "none" /\ lastOp.args.eager = eager

\* What a fetch that returns leaves in the memos: the collections of the
\* service when it is eager, None twice when it is not.
FetchReplacesMemos ==
    lastOp.op = "fetch" /\ outcome.exc = "none" =>
        IF lastOp.args.eager
        THEN /\ card[1]._comments = Val(server.card.comments)
             /\ IsVal(card[1]._checklists)
             /\ Len(card[1]._checklists.v) = Len(server.card.checklists)
        ELSE card[1]._comments = PyNone /\ card[1]._checklists = PyNone

\* C19 as claimed: a fetch that returns replaces both memos; after an eager
\* one a read of either collection issues no request, and after one that is
\* not eager the next read of either collection issues a request.
C19_Claimed ==
    /\ []FetchReplacesMemos
    /\ [][ /\ (Fetched(TRUE) /\ lastOp'.op \in LazyOps => log' = <<>>)
            /\ (Fetched(FALSE) /\ lastOp'.op \in LazyOps => Len(log') = 1) ]_vars

\* C19: a fetch that returns replaces both memos; after an eager one a read
\* of either collection issues no request; after one that is not eager the
\* next read of checklists issues one request, and the next read of comments
\* issues one request when the badge of the card counts a comment and none,
\* memoizing the empty list, when it counts no comment.
C19_FetchReplacesMemos ==
    /\ []FetchReplacesMemos
    /\ [][ /\ (Fetched(TRUE) /\ lastOp'.op \in LazyOps => log' = <<>>)
            /\ (Fetched(FALSE) /\ lastOp'.op = "checklists" => Len(log') = 1)
            /\ (Fetched(FALSE) /\ lastOp'.op = "comments" =>
                   IF card[1].badges.v.comments > 0
                   THEN Len(log') = 1
                   ELSE log' = <<>> /\ card'[1]._comments = Val(<<>>)) ]_vars

\* C19 witness: comments is read after a fetch that was not eager, on a card
\* with two comments; the read has issued its request and returned both.
C19_Witness ==
    /\ lastOp.op = "comments" /\ outcome.exc = "none" /\ Len(log) = 1
    /\ returned = Val(<<"hello", "hello">>)
    /\ card[1]._comments = returned
    /\ card[1]._checklists = PyNone

\* C18 as claimed: every item of the Checklist object carries the checked
\* flag the library sets, whatever calls were made on the checklist.
C18_Claimed ==
    checklist # PyNone =>
        \A i \in 1..Len(checklist.items) : "checked" \in DOMAIN checklist.items[i]

\* The number of calls in a run of SpecRequests and of SpecErrors.
MaxErrorCalls == 2

(***************************************************************************)
(* SpecRequests: the ten setters of a card, in runs of at most             *)
(* MaxErrorCalls calls, each request answered with any of the statuses.    *)
(***************************************************************************)

NextRequests ==
    /\ calls < MaxErrorCalls
    /\ calls' = calls + 1
    /\ \/ CallSetName(1, {U("n2")})
       \/ CallSetDescription(1, {U("d2")})
       \/ CallSetDue(1, OneDatetime)
       \/ CallSetClosed(1, {TRUE})
       \/ CallChangeList(1, {"L2"})
       \/ CallChangeBoard(1, {"B2"})
       \/ CallAssign(1, MemberIds)
       \/ CallComment(1, CommentTexts)
       \/ CallAttach(1)
       \/ CallAddChecklist(1, ItemLists, 5)

SpecRequests == Init /\ [][NextRequests]_vars

\* The setters that consist of one call of fetch_json.
SingleRequestSetters ==
    {"set_name", "set_description", "set_due", "set_closed", "change_list",
     "change_board", "assign", "comment"}

Setters == SingleRequestSetters \cup {"attach", "add_checklist"}

\* The requests of an add_checklist that returns: the POST of the checklist,
\* one POST per item, and those of the fetch: the card, its checklists, and
\* its comments when it has any.
AddChecklistRequests(items) ==
    1 + Len(items) + 2 + (IF Len(server.card.comments) > 0 THEN 1 ELSE 0)

\* C16 as claimed: every call of a setter issues exactly one request.
C16_Claimed == lastOp.op \in Setters => Len(log) = 1

\* C16: set_name, set_description, set_due, set_closed, change_list,
\* change_board, assign and comment issue exactly one request per call; attach
\* issues one when given either a file or a url and none when given both or
\* neither; add_checklist issues the POST of the checklist, one POST per item
\* and then the requests of a fetch of the card, and stops at the first request
\* that fails.
C16_RequestsPerSetter ==
    /\ (lastOp.op \in SingleRequestSetters => Len(log) = 1)
    /\ (lastOp.op = "attach" =>
            Len(log) = IF IsVal(lastOp.args.file) # IsVal(lastOp.args.url) THEN 1 ELSE 0)
    /\ (lastOp.op = "add_checklist" =>
            /\ Len(log) >= 1
            /\ Len(log) <= AddChecklistRequests(lastOp.args.items)
            /\ (outcome.exc = "none"
                 => Len(log) = AddChecklistRequests(lastOp.args.items))
            /\ \A i \in 1..Len(log) :
                  /\ log[i].sent.method =
                        (IF i <= 1 + Len(lastOp.args.items) THEN "POST" ELSE "GET")
                  /\ (i < Len(log) => log[i].answered = 200))

\* C16 witness: add_checklist with one item has returned on a card with a
\* comment, having issued five requests.
C16_Witness ==
    /\ lastOp.op = "add_checklist" /\ outcome.exc = "none"
    /\ Len(lastOp.args.items) = 1
    /\ Len(server.card.comments) = 1
    /\ Len(log) = 5

(***************************************************************************)
(* SpecErrors: every operation of the library, in runs of at most          *)
(* MaxErrorCalls calls, each request answered with any of the statuses.    *)
(***************************************************************************)

NextErrors ==
    /\ calls < MaxErrorCalls
    /\ calls' = calls + 1
    /\ \/ CallSetName(1, {U("n2")})
       \/ CallSetDescription(1, {U("d2")})
       \/ CallSetDue(1, OneDatetime)
       \/ CallSetClosed(1, {TRUE})
       \/ CallChangeList(1, {"L2"})
       \/ CallChangeBoard(1, {"B2"})
       \/ CallAssign(1, MemberIds)
       \/ CallComment(1, CommentTexts)
       \/ CallAttach(1)
       \/ CallAddChecklist(1, {<<"a">>}, 5)
       \/ CallFetch(1)
       \/ CallComments(1)
       \/ CallChecklists(1)
       \/ CallCardDelete(1)
       \/ CallBoardClose
       \/ CallBoardOpen
       \/ CallBoardFetch
       \/ CallListClose
       \/ CallListOpen
       \/ CallListFetch
       \/ CallAddCard(2, {U("n2")})
       \/ CallMemberFetch
       \/ CallAddChecklistItem
       \/ CallSetChecklistItem
       \/ CallRenameChecklistItem
       \/ CallChecklistDelete
       \/ CallWebHookDelete
       \/ CallFetchJson
       \/ CallListHooks
       \/ CallCreateHook
       \/ CallInfoForAllBoards
       \/ CallListBoards
       \/ CallListOrganizations
       \/ CallGetOrganization
       \/ CallGetBoard
       \/ CallAddBoard
       \/ CallGetMember
       \/ CallGetCard

SpecErrors == Init /\ [][NextErrors]_vars

\* Whether a request of the last call was answered with a status that is not
\* a 2xx.
Refused == \E i \in 1..Len(log) : log[i].answered \notin 200..299

\* The exceptions fetch_json raises for a status.
TransportErrors == {"Unauthorized", "ResourceUnavailable"}

====
